---- MODULE Spec2Model ----
(***************************************************************************)
(* Layout reconstruction (scripts/postprocess.py, the flat merge of        *)
(* handwriting_ocr/app/utils/postprocessing.py) and detection evaluation    *)
(* (scripts/evaluate.py) of ctrlpluspen.                                    *)
(*                                                                         *)
(* Numbers.  Box coordinates are integers.  Every float the code computes  *)
(* from them is a ratio of small integers; the model keeps such a value as *)
(* a pair [num, den] with den > 0 and compares by cross-multiplication.    *)
(* center_x and center_y are kept doubled (x1 + x2, y1 + y2).              *)
(* Text.  A Python str is a sequence of one-character strings.             *)
(* Objects.  A DetectionBox object is named by its position in the list    *)
(* parse_detections returns; a line is a sequence of such positions.       *)
(***************************************************************************)
EXTENDS Integers, Sequences, FiniteSets, TLC

VARIABLES
    pc,                     \* position of the call in flight
    data,                   \* the dict handed to postprocess_detections
    y_overlap_threshold,    \* argument of postprocess_detections
    space_threshold,        \* argument of postprocess_detections / merge_line_text
    boxes,                  \* the list parse_detections returned
    lines,                  \* the list group_into_lines returned
    merged,                 \* what merge_line_text returned (direct call)
    flat,                   \* what merge_text_lines returned (direct call)
    predictions,            \* argument of evaluate_detection
    ground_truths,          \* argument of evaluate_detection
    iou_threshold,          \* argument of evaluate_detection
    sorted_preds,           \* evaluate_detection: predictions by confidence
    gt_matched,             \* evaluate_detection: one flag per ground truth
    tp,                     \* evaluate_detection: 1 per true positive so far
    fp,                     \* evaluate_detection: 1 per false positive so far
    result,                 \* the dict evaluate_detection returned
    all_predictions,        \* argument of calculate_map: one list per image
    all_ground_truths,      \* argument of calculate_map: one list per image
    iou_thresholds,         \* argument of calculate_map: None or a list
    all_preds,              \* calculate_map: the predictions of all images
    all_gts,                \* calculate_map: the ground truths of all images
    aps,                    \* calculate_map: the dict label -> AP
    thresholds_done,        \* calculate_map: iterations of the threshold loop
    map_result,             \* the dict calculate_map returned
    ocr_predictions,        \* argument predictions of evaluate_ocr / calculate_cer
    ocr_ground_truths,      \* argument ground_truths of evaluate_ocr / calculate_cer
    prediction,             \* argument of calculate_cer / calculate_wer
    ground_truth,           \* argument of calculate_cer / calculate_wer
    cer,                    \* what calculate_cer returned
    wer,                    \* what calculate_wer returned
    jiwer,                  \* whether the import of jiwer succeeds
    cers,                   \* evaluate_ocr: the CER of each sample so far
    wers,                   \* evaluate_ocr: the WER of each sample so far
    ocr_result,             \* what evaluate_ocr returned or raised
    sorted_boxes,           \* group_into_lines: boxes in order of center_y
    used_ids,               \* group_into_lines: the set used
    current_line,           \* group_into_lines: the line being built
    box_index,              \* group_into_lines: place of the outer loop in sorted_boxes
    other_index,            \* group_into_lines: place of the inner loop in sorted_boxes
    curve_precisions,       \* the list passed to calculate_ap as precisions
    curve_recalls,          \* the list passed to calculate_ap as recalls
    padded_precisions,      \* calculate_ap: its local list precisions
    padded_recalls,         \* calculate_ap: its local list recalls
    ap_index,               \* calculate_ap: the loop variable i
    ap_value,               \* calculate_ap: the local ap, then the value returned
    box_a,                  \* first argument of calculate_iou
    box_b,                  \* second argument of calculate_iou
    iou_value               \* what calculate_iou returned

postVars == <<data, y_overlap_threshold, space_threshold, boxes, lines>>
mergeVars == <<merged, flat>>
evalVars == <<predictions, ground_truths, iou_threshold, sorted_preds, gt_matched,
              tp, fp, result>>
mapVars == <<all_predictions, all_ground_truths, iou_thresholds, all_preds, all_gts,
             aps, thresholds_done, map_result>>
ocrVars == <<ocr_predictions, ocr_ground_truths, prediction, ground_truth, cer, wer,
             jiwer, cers, wers, ocr_result>>
scanVars == <<sorted_boxes, used_ids, current_line, box_index, other_index>>
apVars == <<curve_precisions, curve_recalls, padded_precisions, padded_recalls,
            ap_index, ap_value>>
iouVars == <<box_a, box_b, iou_value>>
vars == <<pc, postVars, mergeVars, evalVars, mapVars, ocrVars, scanVars, apVars, iouVars>>

-----------------------------------------------------------------------------
(* Bounds of the model *)

\* detections of one image / boxes of one line
MaxBoxes == 3
\* predictions of one evaluate_detection call
MaxPreds == 2
\* ground truths of one evaluate_detection call
MaxGts == 2
\* images in one call of calculate_map
MaxImages == 2
\* characters in an argument of calculate_cer / calculate_wer
MaxChars == 3
\* strings in an argument of evaluate_ocr
MaxSamples == 2
\* points of a precision/recall curve passed to calculate_ap
MaxPoints == 3

-----------------------------------------------------------------------------
(* Values *)

\* what stands for a key a dict does not have (dict.get gives None or its
\* default); ids, line ids and confidences are >= -1
Absent == -2

\* DetectionBox.line_id before clustering
DefaultLineId == -1

Rat(n, d) == [num |-> n, den |-> d]

\* y_overlap_threshold: float = 0.5
DefaultYOverlap == Rat(1, 2)

\* space_threshold: float = 0.3
DefaultSpace == Rat(3, 10)

SP == " "
NL == "\n"

\* str.strip() with no argument removes these (of the characters modelled)
IsSpace(c) == c \in {SP, NL}

Range(s) == {s[i] : i \in 1..Len(s)}

RECURSIVE SumSeq(_)
SumSeq(s) == IF s = <<>> THEN 0 ELSE Head(s) + SumSeq(Tail(s))

Max2(a, b) == IF a >= b THEN a ELSE b
Min2(a, b) == IF a <= b THEN a ELSE b

\* sorted(items, key=...) and list.sort(key=...): ascending and stable, so
\* an item stands after the items of smaller key and after the earlier items
\* of equal key.  less[i][j] is key(s[i]) < key(s[j]).
StableSort(s, less) ==
    LET n == Len(s)
        before(i) == {j \in 1..n : less[j][i] \/ (~less[i][j] /\ j < i)}
    IN  [k \in 1..n |-> s[CHOOSE i \in 1..n : Cardinality(before(i)) = k - 1]]

-----------------------------------------------------------------------------
(* DetectionBox *)

center_x2(b) == b.x1 + b.x2
center_y2(b) == b.y1 + b.y2
width(b) == b.x2 - b.x1
height(b) == b.y2 - b.y1

y_overlap(a, b) == Max2(0, Min2(a.y2, b.y2) - Max2(a.y1, b.y1))
min_height(a, b) == Min2(height(a), height(b))

\* a.vertical_overlap(b) as a ratio; 0 when the smaller height is not positive
vertical_overlap(a, b) ==
    IF min_height(a, b) > 0 THEN Rat(y_overlap(a, b), min_height(a, b)) ELSE Rat(0, 1)

\* r >= t for ratios with positive denominators
RatGeq(r, t) == r.num * t.den >= t.num * r.den
RatGt(r, t) == r.num * t.den > t.num * r.den
RatLt(r, t) == r.num * t.den < t.num * r.den

-----------------------------------------------------------------------------
(* parse_detections *)

\* dict.get(key, default)
Get(d, key, default) == IF key \in DOMAIN d THEN d[key] ELSE default

DetId(det, n) == IF det.id = Absent THEN n ELSE det.id

RECURSIVE ParseFrom(_, _)
ParseFrom(dets, acc) ==
    IF dets = <<>> THEN acc
    ELSE LET det == Head(dets)
             box_coords == Get(det, "box", <<0, 0, 0, 0>>)
         IN
         ParseFrom(Tail(dets),
                   Append(acc, [id |-> DetId(det, Len(acc)),
                                x1 |-> box_coords[1], y1 |-> box_coords[2],
                                x2 |-> box_coords[3], y2 |-> box_coords[4],
                                ocr_text |-> det.ocr_text,
                                line_id |-> DefaultLineId]))

parse_detections(d) == ParseFrom(d.detections, <<>>)

-----------------------------------------------------------------------------
(* group_into_lines *)

\* sorted(boxes, key=lambda b: b.center_y), as positions of boxes
SortByCenterY(bx) ==
    LET n == Len(bx)
        less == [i \in 1..n |-> [j \in 1..n |-> center_y2(bx[i]) < center_y2(bx[j])]]
    IN  StableSort([i \in 1..n |-> i], less)

\* a used.add that is forgotten
MarkUsedNever(used, id) == used

\* used.add(id)
MarkUsed(used, id) == used \cup {id}

\* any box of the current line overlaps the candidate enough
JoinsLine(bx, cur, o, thr) ==
    \E m \in 1..Len(cur) : RatGeq(vertical_overlap(bx[cur[m]], bx[o]), thr)

\* the inner for loop over sorted_boxes, from position k
RECURSIVE ScanOthers(_, _, _, _, _, _)
ScanOthers(bx, sorted, k, cur, used, thr) ==
    IF k > Len(sorted) THEN [line |-> cur, used |-> used]
    ELSE LET o == sorted[k] IN
         IF bx[o].id \in used THEN ScanOthers(bx, sorted, k + 1, cur, used, thr)
         ELSE IF JoinsLine(bx, cur, o, thr)
              THEN ScanOthers(bx, sorted, k + 1, Append(cur, o),
                              MarkUsed(used, bx[o].id), thr)
              ELSE ScanOthers(bx, sorted, k + 1, cur, used, thr)

\* the line left in scan order
SortLineNone(bx, cur) == cur

\* current_line.sort(key=lambda b: b.center_x)
SortLine(bx, cur) ==
    LET n == Len(cur)
        less == [i \in 1..n |-> [j \in 1..n |->
                    center_x2(bx[cur[i]]) < center_x2(bx[cur[j]])]]
    IN  StableSort(cur, less)

\* the outer for loop over sorted_boxes, from position k
RECURSIVE BuildLines(_, _, _, _, _, _)
BuildLines(bx, sorted, k, acc, used, thr) ==
    IF k > Len(sorted) THEN acc
    ELSE LET b == sorted[k] IN
         IF bx[b].id \in used THEN BuildLines(bx, sorted, k + 1, acc, used, thr)
         ELSE LET r == ScanOthers(bx, sorted, 1, <<b>>, MarkUsed(used, bx[b].id), thr)
              IN  BuildLines(bx, sorted, k + 1, Append(acc, SortLine(bx, r.line)),
                             r.used, thr)

\* sum(b.center_y for b in line) / len(line), doubled
MeanCenterY2(bx, line) ==
    Rat(SumSeq([m \in 1..Len(line) |-> center_y2(bx[line[m]])]), Len(line))

\* lines.sort(key=mean center_y)
SortLines(bx, ls) ==
    LET n == Len(ls)
        less == [i \in 1..n |-> [j \in 1..n |->
                    RatLt(MeanCenterY2(bx, ls[i]), MeanCenterY2(bx, ls[j]))]]
    IN  StableSort(ls, less)

\* the lines group_into_lines returns
group_into_lines(bx, thr) ==
    IF bx = <<>> THEN <<>>
    ELSE SortLines(bx, BuildLines(bx, SortByCenterY(bx), 1, <<>>, {}, thr))

\* box.line_id = line_id for every box of every line, lines in order
AssignLineIds(bx, ls) ==
    [i \in 1..Len(bx) |->
        LET holders == {l \in 1..Len(ls) : i \in Range(ls[l])}
        IN  IF holders = {} THEN bx[i]
            ELSE [bx[i] EXCEPT !.line_id = (CHOOSE l \in holders : \A m \in holders : m <= l) - 1]]


-----------------------------------------------------------------------------
(* merge_line_text, merge_all_text *)

RECURSIVE JoinStr(_, _)
\* sep.join(parts)
JoinStr(sep, parts) ==
    IF parts = <<>> THEN <<>>
    ELSE IF Len(parts) = 1 THEN parts[1]
    ELSE parts[1] \o sep \o JoinStr(sep, Tail(parts))

RECURSIVE LStrip(_)
LStrip(s) == IF s # <<>> /\ IsSpace(Head(s)) THEN LStrip(Tail(s)) ELSE s

RECURSIVE RStrip(_)
RStrip(s) ==
    IF s # <<>> /\ IsSpace(s[Len(s)]) THEN RStrip(SubSeq(s, 1, Len(s) - 1)) ELSE s

\* str.strip()
Strip(s) == RStrip(LStrip(s))

SumHeights(bx, line) == SumSeq([m \in 1..Len(line) |-> height(bx[line[m]])])

\* a space also when the gap equals the bound
GapExceedsOrEqual(gap, sumh, n, thr) == gap * n * thr.den >= sumh * thr.num

\* gap > space_pixels, where space_pixels = (sum of heights / len(line)) * thr
GapExceeds(gap, sumh, n, thr) == gap * n * thr.den > sumh * thr.num

\* the parts appended for line[i]: " " on a significant gap, then the text
PartsFor(bx, line, i, thr) ==
    LET box == bx[line[i]]
        sep == IF i > 1 /\ GapExceeds(box.x1 - bx[line[i - 1]].x2,
                                      SumHeights(bx, line), Len(line), thr)
               THEN <<<<SP>>>> ELSE <<>>
    IN  sep \o <<box.ocr_text>>

RECURSIVE TextParts(_, _, _, _)
TextParts(bx, line, i, thr) ==
    IF i > Len(line) THEN <<>>
    ELSE PartsFor(bx, line, i, thr) \o TextParts(bx, line, i + 1, thr)

merge_line_text(bx, line, thr) ==
    IF line = <<>> THEN <<>> ELSE JoinStr(<<>>, TextParts(bx, line, 1, thr))

\* line_texts with the empty lines kept and nothing trimmed
RECURSIVE LineTextsRaw(_, _)
LineTextsRaw(bx, ls) ==
    IF ls = <<>> THEN <<>>
    ELSE <<merge_line_text(bx, Head(ls), DefaultSpace)>> \o LineTextsRaw(bx, Tail(ls))

\* line_texts of merge_all_text: merge_line_text is called without a
\* space_threshold, so with its default
RECURSIVE LineTexts(_, _)
LineTexts(bx, ls) ==
    IF ls = <<>> THEN <<>>
    ELSE LET line_text == merge_line_text(bx, Head(ls), DefaultSpace)
         IN  (IF Strip(line_text) # <<>> THEN <<Strip(line_text)>> ELSE <<>>)
             \o LineTexts(bx, Tail(ls))

merge_all_text(bx, ls) == JoinStr(<<NL>>, LineTexts(bx, ls))

\* the texts joined with no separator
merge_text_lines_nosep(regions) ==
    JoinStr(<<>>, SelectSeq([i \in 1..Len(regions) |-> regions[i].ocr_text],
                            LAMBDA t : t # <<>>))

\* " ".join([r.text for r in regions if r.text])
merge_text_lines(regions) ==
    JoinStr(<<SP>>, SelectSeq([i \in 1..Len(regions) |-> regions[i].ocr_text],
                              LAMBDA t : t # <<>>))

-----------------------------------------------------------------------------
(* postprocess_detections *)

\* box_dict = {b.id: b for b in boxes}: the last box of each id
BoxDict(bx) ==
    [id \in {bx[i].id : i \in 1..Len(bx)} |->
        LET is == {i \in 1..Len(bx) : bx[i].id = id}
        IN  bx[CHOOSE i \in is : \A j \in is : j <= i]]

\* det['line_id'] = box_dict[det_id].line_id when det.get('id') is a key
UpdateDetections(dets, bx) ==
    [i \in 1..Len(dets) |->
        IF dets[i].id \in DOMAIN BoxDict(bx)
        THEN [dets[i] EXCEPT !.line_id = BoxDict(bx)[dets[i].id].line_id]
        ELSE dets[i]]

LineEntries(bx, ls, thr) ==
    [l \in 1..Len(ls) |->
        [line_id |-> l - 1,
         text |-> merge_line_text(bx, ls[l], thr),
         box_ids |-> [m \in 1..Len(ls[l]) |-> bx[ls[l][m]].id],
         num_boxes |-> Len(ls[l])]]


-----------------------------------------------------------------------------
(* Ratios *)

RECURSIVE GCD(_, _)
GCD(a, b) == IF b = 0 THEN a ELSE GCD(b, a % b)

Abs(a) == IF a < 0 THEN -a ELSE a

\* the same ratio in lowest terms, denominator positive
Norm(r) ==
    LET g == GCD(Abs(r.num), Abs(r.den))
        sgn == IF r.den < 0 THEN -1 ELSE 1
    IN  IF r.num = 0 THEN Rat(0, 1) ELSE Rat(sgn * (r.num \div g), sgn * (r.den \div g))

RatAdd(a, b) == Norm(Rat(a.num * b.den + b.num * a.den, a.den * b.den))
RatSub(a, b) == Norm(Rat(a.num * b.den - b.num * a.den, a.den * b.den))
RatMul(a, b) == Norm(Rat(a.num * b.num, a.den * b.den))
RatEq(a, b) == a.num * b.den = b.num * a.den
\* the first argument whatever the second
RatFirst(a, b) == a

\* max(a, b)
RatMax(a, b) == IF RatGeq(a, b) THEN a ELSE b

Zero == Rat(0, 1)
One == Rat(1, 1)

-----------------------------------------------------------------------------
(* calculate_iou, calculate_ap *)

\* intersection over union without the test for boxes that do not overlap
calculate_iou_unclipped(box1, box2) ==
    LET x1_i == Max2(box1[1], box2[1])
        y1_i == Max2(box1[2], box2[2])
        x2_i == Min2(box1[3], box2[3])
        y2_i == Min2(box1[4], box2[4])
        intersection == (x2_i - x1_i) * (y2_i - y1_i)
        area1 == (box1[3] - box1[1]) * (box1[4] - box1[2])
        area2 == (box2[3] - box2[1]) * (box2[4] - box2[2])
        union == area1 + area2 - intersection
    IN  IF union > 0 THEN Norm(Rat(intersection, union)) ELSE Zero

calculate_iou(box1, box2) ==
    LET x1_i == Max2(box1[1], box2[1])
        y1_i == Max2(box1[2], box2[2])
        x2_i == Min2(box1[3], box2[3])
        y2_i == Min2(box1[4], box2[4])
        intersection == (x2_i - x1_i) * (y2_i - y1_i)
        area1 == (box1[3] - box1[1]) * (box1[4] - box1[2])
        area2 == (box2[3] - box2[1]) * (box2[4] - box2[2])
        union == area1 + area2 - intersection
    IN  IF x2_i <= x1_i \/ y2_i <= y1_i THEN Zero
        ELSE IF union > 0 THEN Norm(Rat(intersection, union)) ELSE Zero

\* precisions[i] = max(precisions[i], precisions[i + 1]), from the end
RECURSIVE Envelope(_)
Envelope(ps) ==
    IF Len(ps) <= 1 THEN ps
    ELSE LET rest == Envelope(Tail(ps))
         IN  <<RatMax(Head(ps), Head(rest))>> \o rest

\* the sum over i >= k of (recalls[i] - recalls[i - 1]) * precisions[i]
RECURSIVE ApSum(_, _, _)
ApSum(ps, rs, k) ==
    IF k > Len(rs) THEN Zero
    ELSE LET term == IF ~RatEq(rs[k], rs[k - 1])
                     THEN RatMul(RatSub(rs[k], rs[k - 1]), ps[k]) ELSE Zero
         IN  RatAdd(term, ApSum(ps, rs, k + 1))

calculate_ap(precisions, recalls) ==
    LET ps == Envelope(<<Zero>> \o precisions \o <<Zero>>)
        rs == <<Zero>> \o recalls \o <<One>>
    IN  ApSum(ps, rs, 2)

-----------------------------------------------------------------------------
(* evaluate_detection *)

\* best_gt_idx = -1
NoGt == -1

Confidence(pred) == IF pred.confidence = Absent THEN 0 ELSE pred.confidence

\* sorted(predictions, key=confidence, reverse=True): descending, and stable
SortByConfidence(preds) ==
    LET n == Len(preds)
        less == [i \in 1..n |-> [j \in 1..n |->
                    Confidence(preds[i]) > Confidence(preds[j])]]
    IN  StableSort(preds, less)

\* a Python list index (0-based, negative from the end) as a position
PyIndex(idx, n) == IF idx < 0 THEN n + idx + 1 ELSE idx + 1

\* the for loop over ground_truths, from 0-based gt_idx
RECURSIVE BestMatch(_, _, _, _, _)
BestMatch(pred_box, gts, matched, gt_idx, best) ==
    IF gt_idx >= Len(gts) THEN best
    ELSE IF matched[gt_idx + 1] THEN BestMatch(pred_box, gts, matched, gt_idx + 1, best)
    ELSE LET iou == calculate_iou(pred_box, gts[gt_idx + 1].box)
         IN  IF RatGt(iou, best.iou)
             THEN BestMatch(pred_box, gts, matched, gt_idx + 1,
                            [iou |-> iou, gt_idx |-> gt_idx])
             ELSE BestMatch(pred_box, gts, matched, gt_idx + 1, best)

FindBest(pred_box, gts, matched) ==
    BestMatch(pred_box, gts, matched, 0, [iou |-> Zero, gt_idx |-> NoGt])

\* best_iou >= iou_threshold
\* best_iou > iou_threshold
IsTruePositiveStrict(best, thr) == RatGt(best.iou, thr)

IsTruePositive(best, thr) == RatGeq(best.iou, thr)

\* gt_matched[best_gt_idx] = True
MarkMatched(matched, idx) == [matched EXCEPT ![PyIndex(idx, Len(matched))] = TRUE]

\* np.cumsum
CumSum(s) == [i \in 1..Len(s) |-> SumSeq(SubSeq(s, 1, i))]

\* the dict of the empty-input returns
FourMetrics(v) == [precision |-> v, recall |-> v, ap |-> v, f1 |-> v]

\* predictions without ground truth reported as a perfect score
EmptyResultLenient(preds, gts) ==
    IF preds = <<>> /\ gts = <<>> THEN FourMetrics(One)
    ELSE IF preds = <<>> THEN FourMetrics(Zero)
    ELSE FourMetrics(One)

EmptyResult(preds, gts) ==
    IF preds = <<>> /\ gts = <<>> THEN FourMetrics(One)
    ELSE IF preds = <<>> THEN FourMetrics(Zero)
    ELSE FourMetrics(Zero)

\* lines 119-148: the metrics from the tp / fp lists
FullResult(preds, num_gt, tps, fps) ==
    LET tp_cumsum == CumSum(tps)
        fp_cumsum == CumSum(fps)
        n == Len(tps)
        precisions == [i \in 1..n |-> Norm(Rat(tp_cumsum[i], tp_cumsum[i] + fp_cumsum[i]))]
        recalls == [i \in 1..n |-> Norm(Rat(tp_cumsum[i], num_gt))]
        final_precision == IF n > 0 THEN precisions[n] ELSE Zero
        final_recall == IF n > 0 THEN recalls[n] ELSE Zero
        psum == RatAdd(final_precision, final_recall)
        f1 == IF RatGt(psum, Zero)
              THEN Norm(Rat(2 * final_precision.num * final_recall.num * psum.den,
                            final_precision.den * final_recall.den * psum.num))
              ELSE Zero
    IN  [precision |-> final_precision,
         recall |-> final_recall,
         ap |-> calculate_ap(precisions, recalls),
         f1 |-> f1,
         num_predictions |-> Len(preds),
         num_ground_truths |-> num_gt,
         true_positives |-> SumSeq(tps),
         false_positives |-> SumSeq(fps),
         false_negatives |-> num_gt - SumSeq(tps)]

\* lines 95-117 for every prediction of sorted_preds in turn: the tp list
RECURSIVE MatchAll(_, _, _, _, _)
MatchAll(sp, gts, matched, tps, thr) ==
    IF Len(tps) = Len(sp) THEN tps
    ELSE LET best == FindBest(sp[Len(tps) + 1].box, gts, matched)
         IN  IF IsTruePositive(best, thr)
             THEN MatchAll(sp, gts, MarkMatched(matched, best.gt_idx), Append(tps, 1), thr)
             ELSE MatchAll(sp, gts, matched, Append(tps, 0), thr)

\* one whole call
evaluate_detection(preds, gts, thr) ==
    IF preds = <<>> \/ gts = <<>> THEN EmptyResult(preds, gts)
    ELSE LET tps == MatchAll(SortByConfidence(preds), gts,
                             [i \in 1..Len(gts) |-> FALSE], <<>>, thr)
         IN  FullResult(preds, Len(gts), tps, [i \in 1..Len(tps) |-> 1 - tps[i]])

-----------------------------------------------------------------------------
(* calculate_map *)

\* an optional argument: None, or the value given
None == <<>>
Some(v) == <<v>>

\* [0.5, 0.55, ..., 0.95]
DefaultThresholds == [i \in 1..10 |-> Rat(50 + 5 * (i - 1), 100)]

\* the label f'AP@{t:.2f}' of a threshold, named by its hundredths: t rounded
\* to two decimals (no threshold of the model lies half way between two labels)
Label(t) == (200 * t.num + t.den) \div (2 * t.den)

\* list.extend over the lists of all images
RECURSIVE Flatten(_)
Flatten(ls) == IF ls = <<>> THEN <<>> ELSE Head(ls) \o Flatten(Tail(ls))

\* aps[label] = ap
PutAp(d, label, ap) == [l \in DOMAIN d \cup {label} |-> IF l = label THEN ap ELSE d[l]]

\* aps.get(label, default)
GetAp(d, label, default) == IF label \in DOMAIN d THEN d[label] ELSE default

RECURSIVE RatSum(_)
RatSum(s) == IF s = <<>> THEN Zero ELSE RatAdd(Head(s), RatSum(Tail(s)))

\* what np.mean gives for an empty list
NaN == [num |-> 0, den |-> 0]

\* np.mean
Mean(s) ==
    IF s = <<>> THEN NaN
    ELSE LET t == RatSum(s) IN Norm(Rat(t.num, t.den * Len(s)))

\* lines 185-195
MapResult(thresholds, d) ==
    LET map_50 == GetAp(d, 50, Zero)
        map_50_95 == Mean([i \in 1..Len(thresholds) |-> d[Label(thresholds[i])]])
    IN  ("mAP@0.5" :> map_50) @@ ("mAP@0.5:0.95" :> map_50_95)
            @@ ("AP_per_threshold" :> d)

-----------------------------------------------------------------------------
(* calculate_cer *)

Min3(a, b, c) == Min2(a, Min2(b, c))

\* one row of the edit-distance table from the row above it
RECURSIVE EditRow(_, _, _, _, _)
EditRow(x, b, prev, j, cur) ==
    IF j > Len(b) THEN cur
    ELSE LET c == Min3(prev[j + 1] + 1, cur[j] + 1,
                       prev[j] + (IF x = b[j] THEN 0 ELSE 1))
         IN  EditRow(x, b, prev, j + 1, Append(cur, c))

RECURSIVE EditRows(_, _, _, _)
EditRows(a, b, i, prev) ==
    IF i > Len(a) THEN prev[Len(b) + 1]
    ELSE LET row == EditRow(a[i], b, prev, 1, <<i>>)
         IN  \* a row is complete (one entry per column) before the next starts
             IF Len(row) = Len(b) + 1 THEN EditRows(a, b, i + 1, row) ELSE -1

\* editdistance.eval(a, b) on two sequences
editdistance_eval(a, b) == EditRows(a, b, 1, [j \in 1..(Len(b) + 1) |-> j - 1])

\* the distance over the length of the prediction
calculate_cer_by_prediction(pred, gt) ==
    IF gt = <<>> THEN (IF pred = <<>> THEN Zero ELSE One)
    ELSE IF pred = <<>> THEN One
    ELSE Norm(Rat(editdistance_eval(pred, gt), Len(pred)))

calculate_cer(pred, gt) ==
    IF gt = <<>> THEN (IF pred = <<>> THEN Zero ELSE One)
    ELSE Norm(Rat(editdistance_eval(pred, gt), Len(gt)))

-----------------------------------------------------------------------------
(* calculate_wer *)

\* str.split(): the maximal runs of characters that are not whitespace
RECURSIVE SplitFrom(_, _, _)
SplitFrom(s, i, cur) ==
    LET done == IF cur = <<>> THEN <<>> ELSE <<cur>>
    IN  IF i > Len(s) THEN done
        ELSE IF IsSpace(s[i]) THEN done \o SplitFrom(s, i + 1, <<>>)
        ELSE SplitFrom(s, i + 1, Append(cur, s[i]))

Split(s) == SplitFrom(s, 1, <<>>)

\* jiwer's RemoveMultipleSpaces, re.sub(r"\s\s+", " ", s): a run of two or
\* more whitespace characters becomes one space, a single one is kept as it is
RECURSIVE RemoveMultipleSpaces(_)
RemoveMultipleSpaces(s) ==
    IF s = <<>> THEN <<>>
    ELSE IF IsSpace(s[1]) /\ Len(s) >= 2 /\ IsSpace(s[2])
         THEN <<SP>> \o RemoveMultipleSpaces(LStrip(s))
    ELSE <<s[1]>> \o RemoveMultipleSpaces(Tail(s))

\* jiwer's ReduceToListOfListOfWords: s.split(" ") without the empty pieces
RECURSIVE SplitOnSpace(_, _, _)
SplitOnSpace(s, i, cur) ==
    LET done == IF cur = <<>> THEN <<>> ELSE <<cur>>
    IN  IF i > Len(s) THEN done
        ELSE IF s[i] = SP THEN done \o SplitOnSpace(s, i + 1, <<>>)
        ELSE SplitOnSpace(s, i + 1, Append(cur, s[i]))

\* jiwer's default transform of wer()
JiwerWords(s) == SplitOnSpace(Strip(RemoveMultipleSpaces(s)), 1, <<>>)

\* an exception, by the name of its class
Raised(name) == [raised |-> name]

\* jiwer.wer(reference, hypothesis): (S + D + I) / (H + S + D) of a minimal
\* alignment of the words, ValueError for a reference without words
JiwerWer(reference, hypothesis) ==
    LET r == JiwerWords(reference)
        h == JiwerWords(hypothesis)
    IN  IF r = <<>> THEN Raised("ValueError")
        ELSE Norm(Rat(editdistance_eval(h, r), Len(r)))

\* lines 225-235
WerFallback(pred, gt) ==
    LET pred_words == Split(pred)
        gt_words == Split(gt)
    IN  IF gt_words = <<>> THEN (IF pred_words = <<>> THEN Zero ELSE One)
        ELSE Norm(Rat(editdistance_eval(pred_words, gt_words), Len(gt_words)))

\* the try block returns what jiwer returns when jiwer is there and does not
\* raise; the bare except runs the fallback on every other path
calculate_wer(pred, gt, have_jiwer) ==
    IF have_jiwer /\ JiwerWer(gt, pred) # Raised("ValueError")
    THEN JiwerWer(gt, pred)
    ELSE WerFallback(pred, gt)

-----------------------------------------------------------------------------
(* evaluate_ocr *)

\* no check of the lengths
LengthsDifferUnchecked(preds, gts) == FALSE

\* len(predictions) != len(ground_truths)
LengthsDiffer(preds, gts) == Len(preds) # Len(gts)

\* the pairs zip(predictions, ground_truths) gives
ZipLen(preds, gts) == Min2(Len(preds), Len(gts))

\* np.std, kept as its square: the mean of the squared distances to the mean
Variance(s) ==
    LET m == Mean(s)
    IN  Mean([i \in 1..Len(s) |-> RatMul(RatSub(s[i], m), RatSub(s[i], m))])

\* lines 255-256
NoSamplesResult == [CER |-> Zero, WER |-> Zero, num_samples |-> 0]

\* lines 265-275
OcrResult(preds, gts, cs, ws) ==
    [CER |-> Mean(cs),
     CER_std |-> [squared |-> Variance(cs)],
     WER |-> Mean(ws),
     WER_std |-> [squared |-> Variance(ws)],
     num_samples |-> Len(preds),
     per_sample |-> [i \in 1..Min2(Min2(Len(cs), Len(ws)), ZipLen(preds, gts)) |->
                        [CER |-> cs[i], WER |-> ws[i],
                         prediction |-> preds[i], ground_truth |-> gts[i]]]]

-----------------------------------------------------------------------------
(* Inputs *)

Det(id, g) == [id |-> id, box |-> g.box, ocr_text |-> g.ocr_text, line_id |-> Absent]

Data(dets) == [detections |-> dets, lines |-> <<>>, aggregated_text |-> <<>>]

Geo(x1, y1, x2, y2, t) == [box |-> <<x1, y1, x2, y2>>, ocr_text |-> t]

ValidBox(b) == b[3] > b[1] /\ b[4] > b[2]

\* clustering: two columns of boxes over five row ranges (overlap ratios 0,
\* 1/2 and 1 occur among them), and two boxes of invalid geometry (height 0,
\* width 0)
ClusterDomain ==
    {Geo(x, r[1], x + 2, r[2], <<"a">>) :
        x \in {0, 1}, r \in {<<0, 1>>, <<1, 2>>, <<0, 2>>, <<1, 3>>, <<0, 3>>}}
    \cup {Geo(0, 1, 2, 1, <<"a">>), Geo(1, 0, 1, 2, <<"a">>)}

\* transcript: two rows, two columns (gap 1 between them), texts with and
\* without content
TextDomain ==
    {Geo(x, y, x + 2, y + 2, t) : x \in {0, 3}, y \in {0, 3}, t \in {<<>>, <<"a">>, <<SP>>}}

\* one line: the boxes A and B of the worked example (gap 10, mean height 20,
\* bound 6), a box at gap 6 from A, a box touching A, a box right of B
MergeDomain ==
    {Geo(g[1], g[2], g[3], g[4], t) :
        g \in {<<0, 0, 50, 20>>, <<60, 2, 110, 22>>, <<56, 2, 106, 22>>,
               <<50, 0, 100, 10>>, <<120, 2, 170, 22>>},
        t \in {<<>>, <<"a">>, <<"b">>}}

\* evaluation: IoU(P, H) = 1/2, IoU(P, S) = 1/3, IoU(H, S) = 1/5
EvalBoxes == {<<0, 0, 2, 2>>, <<0, 0, 2, 1>>, <<1, 0, 3, 2>>}
EvalConfidences == {5, 9}
EvalThresholds == {Rat(0, 1), Rat(1, 4), Rat(1, 2), Rat(1, 1)}

\* the lower and the upper half of the box [0,0,2,2]: IoU 1/2 with it, 0 with
\* each other
HalfBoxes == {<<0, 0, 2, 1>>, <<0, 1, 2, 2>>}

\* predictions with a confidence of 0, of 5, or without the key
UnratedPredictions == [box : {<<0, 0, 2, 2>>, <<0, 0, 2, 1>>}, confidence : {Absent, 0, 5}]

\* the two-box scenario (confidences 0.9 and 0.85 as hundredths): IoU 3440/3944
\* and 2808/3272
ExamplePredictions ==
    <<[box |-> <<10, 10, 100, 50>>, confidence |-> 90],
      [box |-> <<120, 10, 200, 50>>, confidence |-> 85]>>
ExampleGroundTruths == <<[box |-> <<12, 8, 98, 52>>], [box |-> <<118, 12, 198, 48>>]>>

SeqsUpTo(n, S) == UNION {[1..k -> S] : k \in 0..n}

IdlePost ==
    /\ data = Data(<<>>)
    /\ y_overlap_threshold = DefaultYOverlap
    /\ space_threshold = DefaultSpace
    /\ boxes = <<>>
    /\ lines = <<>>

IdleMerge == merged = <<>> /\ flat = <<>>

IdleEval ==
    /\ predictions = <<>>
    /\ ground_truths = <<>>
    /\ iou_threshold = Rat(1, 2)
    /\ sorted_preds = <<>>
    /\ gt_matched = <<>>
    /\ tp = <<>>
    /\ fp = <<>>
    /\ result = [none |-> TRUE]

IdleMap ==
    /\ all_predictions = <<>>
    /\ all_ground_truths = <<>>
    /\ iou_thresholds = <<>>
    /\ all_preds = <<>>
    /\ all_gts = <<>>
    /\ aps = <<>>
    /\ thresholds_done = 0
    /\ map_result = [none |-> TRUE]

IdleOcr ==
    /\ ocr_predictions = <<>>
    /\ ocr_ground_truths = <<>>
    /\ prediction = <<>>
    /\ ground_truth = <<>>
    /\ cer = Zero
    /\ wer = Zero
    /\ jiwer = FALSE
    /\ cers = <<>>
    /\ wers = <<>>
    /\ ocr_result = [none |-> TRUE]

IdleScan ==
    /\ sorted_boxes = <<>>
    /\ used_ids = {}
    /\ current_line = <<>>
    /\ box_index = 0
    /\ other_index = 0

\* the scan of group_into_lines: one column of boxes over five row ranges and
\* a box further right; a record carries the id 0 or none (then its position),
\* so that two boxes can have the same id
ScanDomain ==
    {Geo(0, r[1], 2, r[2], <<"a">>) :
        r \in {<<0, 1>>, <<1, 2>>, <<0, 2>>, <<1, 3>>, <<0, 3>>}}
    \cup {Geo(1, 0, 3, 1, <<"a">>)}
ScanIds == {Absent, 0}

IdleAp ==
    /\ curve_precisions = <<>>
    /\ curve_recalls = <<>>
    /\ padded_precisions = <<>>
    /\ padded_recalls = <<>>
    /\ ap_index = 0
    /\ ap_value = Zero

IdleIou ==
    /\ box_a = <<0, 0, 0, 0>>
    /\ box_b = <<0, 0, 0, 0>>
    /\ iou_value = Zero

\* precision/recall curves: lists of equal length over three values, rising
\* and falling ones included
CurveValues == {Zero, Rat(1, 2), One}
Curves ==
    UNION {[precisions : [1..n -> CurveValues], recalls : [1..n -> CurveValues]] :
              n \in 0..MaxPoints}

\* boxes with corners on a grid of four columns and three rows, all of them
\* valid (x2 > x1, y2 > y1)
IouBoxes == {b \in (0..3) \X (0..2) \X (0..3) \X (0..2) : ValidBox(b)}

\* calculate_map: images of at most one prediction and one ground truth over
\* two boxes of IoU 1/2; thresholds 0.5 and 0.504 (both labelled 0.50), 0.75
MapBoxes == {<<0, 0, 2, 2>>, <<0, 0, 2, 1>>}
MapThresholds == {Rat(1, 2), Rat(63, 125), Rat(3, 4)}
ThresholdLists == SeqsUpTo(2, MapThresholds)
Images ==
    [preds : {<<>>} \cup {<<p>> : p \in [box : MapBoxes, confidence : EvalConfidences]},
     gts : {<<>>} \cup {<<g>> : g \in [box : MapBoxes]}]

\* text metrics: strings of a letter, the space and the newline
Chars == {"a", SP, NL}
Strings == SeqsUpTo(MaxChars, Chars)

HelloWarld == <<"H", "e", "l", "l", "o", SP, "W", "a", "r", "l", "d">>
HelloWorld == <<"H", "e", "l", "l", "o", SP, "W", "o", "r", "l", "d">>

\* evaluate_ocr: lists of a few strings
OcrStrings == {<<>>, <<"a">>, <<"a", SP, "a">>, <<"a", NL, "a">>}

\* records with and without the keys id and box
SchemaDomain ==
    [id : {Absent, 0, 1}, box : {<<0, 0, 2, 2>>, <<0, 3, 2, 5>>}, ocr_text : {<<"a">>},
     line_id : {Absent}]
    \cup [id : {Absent, 0, 1}, ocr_text : {<<"a">>}, line_id : {Absent}]

\* a call of postprocess_detections on detections drawn from domain
InitPost(domain, ythrs, sthrs) ==
    /\ pc = "start"
    /\ IdleScan
    /\ IdleAp
    /\ IdleIou
    /\ \E g \in SeqsUpTo(MaxBoxes, domain) :
          data = Data([i \in 1..Len(g) |-> Det(i - 1, g[i])])
    /\ y_overlap_threshold \in ythrs
    /\ space_threshold \in sthrs
    /\ boxes = <<>>
    /\ lines = <<>>
    /\ IdleMerge
    /\ IdleEval
    /\ IdleMap
    /\ IdleOcr

Init == InitPost(ClusterDomain, {DefaultYOverlap, One}, {DefaultSpace})

InitText == InitPost(TextDomain, {DefaultYOverlap}, {DefaultSpace, One})

\* a call of postprocess_detections on records that may lack a key
InitSchema ==
    /\ pc = "start"
    /\ IdleScan
    /\ IdleAp
    /\ IdleIou
    /\ \E dets \in SeqsUpTo(MaxBoxes, SchemaDomain) : data = Data(dets)
    /\ y_overlap_threshold = DefaultYOverlap
    /\ space_threshold = DefaultSpace
    /\ boxes = <<>>
    /\ lines = <<>>
    /\ IdleMerge
    /\ IdleEval
    /\ IdleMap
    /\ IdleOcr

\* direct calls of merge_line_text and merge_text_lines on one line
InitMerge ==
    /\ pc = "merge_call"
    /\ IdleScan
    /\ IdleAp
    /\ IdleIou
    /\ \E g \in SeqsUpTo(MaxBoxes, MergeDomain) :
          boxes = parse_detections(Data([i \in 1..Len(g) |-> Det(i - 1, g[i])]))
    /\ space_threshold \in {DefaultSpace, Zero}
    /\ data = Data(<<>>)
    /\ y_overlap_threshold = DefaultYOverlap
    /\ lines = <<>>
    /\ IdleMerge
    /\ IdleEval
    /\ IdleMap
    /\ IdleOcr

\* a call of group_into_lines on parsed boxes
InitScan ==
    /\ pc = "scan_start"
    /\ \E g \in SeqsUpTo(MaxBoxes, ScanDomain \X ScanIds) :
          boxes = parse_detections(Data([i \in 1..Len(g) |-> Det(g[i][2], g[i][1])]))
    /\ y_overlap_threshold = DefaultYOverlap
    /\ sorted_boxes = <<>>
    /\ used_ids = {}
    /\ current_line = <<>>
    /\ box_index = 0
    /\ other_index = 0
    /\ IdleAp
    /\ IdleIou
    /\ data = Data(<<>>)
    /\ space_threshold = DefaultSpace
    /\ lines = <<>>
    /\ IdleMerge
    /\ IdleEval
    /\ IdleMap
    /\ IdleOcr

\* a call of calculate_ap on a curve
InitAp ==
    /\ pc = "ap_start"
    /\ \E c \in Curves : curve_precisions = c.precisions /\ curve_recalls = c.recalls
    /\ padded_precisions = <<>>
    /\ padded_recalls = <<>>
    /\ ap_index = 0
    /\ ap_value = Zero
    /\ IdlePost
    /\ IdleMerge
    /\ IdleEval
    /\ IdleMap
    /\ IdleOcr
    /\ IdleScan
    /\ IdleIou

\* a call of calculate_iou on two valid boxes
InitIou ==
    /\ pc = "iou_call"
    /\ box_a \in IouBoxes
    /\ box_b \in IouBoxes
    /\ iou_value = Zero
    /\ IdlePost
    /\ IdleMerge
    /\ IdleEval
    /\ IdleMap
    /\ IdleOcr
    /\ IdleScan
    /\ IdleAp

\* a call of calculate_map, with or without a list of thresholds
InitMap ==
    /\ pc = "map_start"
    /\ IdleScan
    /\ IdleAp
    /\ IdleIou
    /\ \E imgs \in SeqsUpTo(MaxImages, Images) :
          /\ all_predictions = [i \in 1..Len(imgs) |-> imgs[i].preds]
          /\ all_ground_truths = [i \in 1..Len(imgs) |-> imgs[i].gts]
    /\ iou_thresholds \in {None} \cup {Some(l) : l \in ThresholdLists}
    /\ all_preds = <<>>
    /\ all_gts = <<>>
    /\ aps = <<>>
    /\ thresholds_done = 0
    /\ map_result = [none |-> TRUE]
    /\ IdlePost
    /\ IdleMerge
    /\ IdleEval
    /\ IdleOcr

\* a call of calculate_cer or of calculate_wer on two strings
InitMetrics ==
    /\ pc = "metric_call"
    /\ IdleScan
    /\ IdleAp
    /\ IdleIou
    /\ \/ prediction \in Strings /\ ground_truth \in Strings
       \/ prediction = HelloWarld /\ ground_truth = HelloWorld
    /\ jiwer \in BOOLEAN
    /\ cer = Zero
    /\ wer = Zero
    /\ ocr_predictions = <<>>
    /\ ocr_ground_truths = <<>>
    /\ cers = <<>>
    /\ wers = <<>>
    /\ ocr_result = [none |-> TRUE]
    /\ IdlePost
    /\ IdleMerge
    /\ IdleEval
    /\ IdleMap

\* a call of evaluate_ocr on two lists, of equal length or not
InitOcr ==
    /\ pc = "ocr_start"
    /\ IdleScan
    /\ IdleAp
    /\ IdleIou
    /\ ocr_predictions \in SeqsUpTo(MaxSamples, OcrStrings)
    /\ ocr_ground_truths \in SeqsUpTo(MaxSamples, OcrStrings)
    /\ jiwer \in BOOLEAN
    /\ prediction = <<>>
    /\ ground_truth = <<>>
    /\ cer = Zero
    /\ wer = Zero
    /\ cers = <<>>
    /\ wers = <<>>
    /\ ocr_result = [none |-> TRUE]
    /\ IdlePost
    /\ IdleMerge
    /\ IdleEval
    /\ IdleMap

\* a call of evaluate_detection
InitEval ==
    /\ pc = "eval_start"
    /\ IdleScan
    /\ IdleAp
    /\ IdleIou
    /\ \/ /\ predictions \in SeqsUpTo(MaxPreds, [box : EvalBoxes, confidence : EvalConfidences])
          /\ ground_truths \in SeqsUpTo(MaxGts, [box : EvalBoxes])
          /\ iou_threshold \in EvalThresholds
       \/ /\ predictions = ExamplePredictions
          /\ ground_truths = ExampleGroundTruths
          /\ iou_threshold = Rat(1, 2)
       \/ /\ predictions \in SeqsUpTo(MaxPreds, UnratedPredictions)
          /\ ground_truths \in SeqsUpTo(1, [box : {<<0, 0, 2, 2>>}])
          /\ iou_threshold = Rat(1, 2)
       \/ /\ predictions \in SeqsUpTo(MaxPreds, [box : {<<0, 0, 2, 2>>, <<0, 0, 2, 1>>},
                                                    confidence : EvalConfidences])
          /\ ground_truths \in SeqsUpTo(MaxGts, [box : HalfBoxes])
          /\ iou_threshold = Rat(1, 2)
    /\ sorted_preds = <<>>
    /\ gt_matched = <<>>
    /\ tp = <<>>
    /\ fp = <<>>
    /\ result = [none |-> TRUE]
    /\ IdlePost
    /\ IdleMerge
    /\ IdleMap
    /\ IdleOcr

-----------------------------------------------------------------------------
(* postprocess_detections, step by step *)

\* boxes = parse_detections(data)
ParseDetections ==
    /\ pc = "start"
    /\ boxes' = parse_detections(data)
    /\ pc' = "parsed"
    /\ UNCHANGED <<apVars, iouVars, scanVars, data, y_overlap_threshold, space_threshold, lines, mergeVars, evalVars, mapVars, ocrVars>>

\* if not boxes: lines = [], aggregated_text = ""
ReturnEmpty ==
    /\ pc = "parsed"
    /\ boxes = <<>>
    /\ data' = [data EXCEPT !.lines = <<>>, !.aggregated_text = <<>>]
    /\ pc' = "done"
    /\ UNCHANGED <<apVars, iouVars, scanVars, y_overlap_threshold, space_threshold, boxes, lines, mergeVars, evalVars, mapVars, ocrVars>>

\* lines = group_into_lines(boxes, y_overlap_threshold), which sets line_id
GroupIntoLines ==
    /\ pc = "parsed"
    /\ boxes # <<>>
    /\ lines' = group_into_lines(boxes, y_overlap_threshold)
    /\ boxes' = AssignLineIds(boxes, lines')
    /\ pc' = "grouped"
    /\ UNCHANGED <<apVars, iouVars, scanVars, data, y_overlap_threshold, space_threshold, mergeVars, evalVars, mapVars, ocrVars>>

\* the detections' line ids, data['lines'], data['aggregated_text']
WriteResults ==
    /\ pc = "grouped"
    /\ data' = [detections |-> UpdateDetections(data.detections, boxes),
                lines |-> LineEntries(boxes, lines, space_threshold),
                aggregated_text |-> merge_all_text(boxes, lines)]
    /\ pc' = "done"
    /\ UNCHANGED <<apVars, iouVars, scanVars, y_overlap_threshold, space_threshold, boxes, lines, mergeVars, evalVars, mapVars, ocrVars>>

NextPost == ParseDetections \/ ReturnEmpty \/ GroupIntoLines \/ WriteResults

-----------------------------------------------------------------------------
(* group_into_lines, one loop iteration per step *)

\* lines 99-100: if not boxes: return []
ReturnNoLines ==
    /\ pc = "scan_start"
    /\ boxes = <<>>
    /\ lines' = <<>>
    /\ pc' = "scan_done"
    /\ UNCHANGED <<apVars, iouVars, data, y_overlap_threshold, space_threshold, boxes, mergeVars,
                   evalVars, mapVars, ocrVars, scanVars>>

\* lines 103-106
SortBoxes ==
    /\ pc = "scan_start"
    /\ boxes # <<>>
    /\ sorted_boxes' = SortByCenterY(boxes)
    /\ lines' = <<>>
    /\ used_ids' = {}
    /\ box_index' = 1
    /\ pc' = "scan_outer"
    /\ UNCHANGED <<apVars, iouVars, data, y_overlap_threshold, space_threshold, boxes, mergeVars,
                   evalVars, mapVars, ocrVars, current_line, other_index>>

\* lines 108-110: a box whose id is in used is passed over
SkipUsed ==
    /\ pc = "scan_outer"
    /\ box_index <= Len(sorted_boxes)
    /\ boxes[sorted_boxes[box_index]].id \in used_ids
    /\ box_index' = box_index + 1
    /\ UNCHANGED <<apVars, iouVars, pc, postVars, mergeVars, evalVars, mapVars, ocrVars, sorted_boxes,
                   used_ids, current_line, other_index>>

\* lines 112-114: the box starts a new line
StartLine ==
    /\ pc = "scan_outer"
    /\ box_index <= Len(sorted_boxes)
    /\ boxes[sorted_boxes[box_index]].id \notin used_ids
    /\ current_line' = <<sorted_boxes[box_index]>>
    /\ used_ids' = MarkUsed(used_ids, boxes[sorted_boxes[box_index]].id)
    /\ other_index' = 1
    /\ pc' = "scan_inner"
    /\ UNCHANGED <<apVars, iouVars, postVars, mergeVars, evalVars, mapVars, ocrVars, sorted_boxes,
                   box_index>>

\* the iterator of "for other in sorted_boxes" after an iteration
NextOtherFromStart(k, joined) == IF joined THEN 1 ELSE k + 1

NextOther(k, joined) == k + 1

\* lines 117-126: one iteration of the inner loop
ExamineOther ==
    /\ pc = "scan_inner"
    /\ other_index <= Len(sorted_boxes)
    /\ LET o == sorted_boxes[other_index]
           joined == /\ boxes[o].id \notin used_ids
                     /\ JoinsLine(boxes, current_line, o, y_overlap_threshold)
       IN  /\ current_line' = IF joined THEN Append(current_line, o) ELSE current_line
           /\ used_ids' = IF joined THEN MarkUsed(used_ids, boxes[o].id) ELSE used_ids
           /\ other_index' = NextOther(other_index, joined)
    /\ UNCHANGED <<apVars, iouVars, pc, postVars, mergeVars, evalVars, mapVars, ocrVars, sorted_boxes,
                   box_index>>

\* lines 128-130: the inner loop is over
CloseLine ==
    /\ pc = "scan_inner"
    /\ other_index > Len(sorted_boxes)
    /\ lines' = Append(lines, SortLine(boxes, current_line))
    /\ box_index' = box_index + 1
    /\ pc' = "scan_outer"
    /\ UNCHANGED <<apVars, iouVars, data, y_overlap_threshold, space_threshold, boxes, mergeVars,
                   evalVars, mapVars, ocrVars, sorted_boxes, used_ids, current_line,
                   other_index>>

\* lines 132-140: the outer loop is over
SortAndNumberLines ==
    /\ pc = "scan_outer"
    /\ box_index > Len(sorted_boxes)
    /\ lines' = SortLines(boxes, lines)
    /\ boxes' = AssignLineIds(boxes, lines')
    /\ pc' = "scan_done"
    /\ UNCHANGED <<apVars, iouVars, data, y_overlap_threshold, space_threshold, mergeVars, evalVars,
                   mapVars, ocrVars, scanVars>>

NextScan ==
    \/ ReturnNoLines \/ SortBoxes \/ SkipUsed \/ StartLine \/ ExamineOther
    \/ CloseLine \/ SortAndNumberLines

-----------------------------------------------------------------------------
(* calculate_ap, one loop iteration per step; ap_index is the 0-based i *)

\* lines 45-46: the local lists, and the start of the backward loop
PadCurve ==
    /\ pc = "ap_start"
    /\ padded_precisions' = <<Zero>> \o curve_precisions \o <<Zero>>
    /\ padded_recalls' = <<Zero>> \o curve_recalls \o <<One>>
    /\ ap_index' = Len(padded_precisions') - 2
    /\ pc' = "ap_envelope"
    /\ UNCHANGED <<postVars, mergeVars, evalVars, mapVars, ocrVars, scanVars, iouVars,
                   curve_precisions, curve_recalls, ap_value>>

\* lines 49-50: precisions[i] = max(precisions[i], precisions[i + 1])
RaisePrecision ==
    /\ pc = "ap_envelope"
    /\ ap_index >= 0
    /\ padded_precisions' =
          [padded_precisions EXCEPT ![ap_index + 1] =
              RatMax(padded_precisions[ap_index + 1], padded_precisions[ap_index + 2])]
    /\ ap_index' = ap_index - 1
    /\ UNCHANGED <<pc, postVars, mergeVars, evalVars, mapVars, ocrVars, scanVars, iouVars,
                   curve_precisions, curve_recalls, padded_recalls, ap_value>>

\* line 53: ap = 0.0, and the start of the forward loop
StartSum ==
    /\ pc = "ap_envelope"
    /\ ap_index < 0
    /\ ap_value' = Zero
    /\ ap_index' = 1
    /\ pc' = "ap_sum"
    /\ UNCHANGED <<postVars, mergeVars, evalVars, mapVars, ocrVars, scanVars, iouVars,
                   curve_precisions, curve_recalls, padded_precisions, padded_recalls>>

\* lines 54-56: one iteration of the forward loop
AddArea ==
    /\ pc = "ap_sum"
    /\ ap_index < Len(padded_recalls)
    /\ ap_value' =
          IF ~RatEq(padded_recalls[ap_index + 1], padded_recalls[ap_index])
          THEN RatAdd(ap_value,
                      RatMul(RatSub(padded_recalls[ap_index + 1], padded_recalls[ap_index]),
                             padded_precisions[ap_index + 1]))
          ELSE ap_value
    /\ ap_index' = ap_index + 1
    /\ UNCHANGED <<pc, postVars, mergeVars, evalVars, mapVars, ocrVars, scanVars, iouVars,
                   curve_precisions, curve_recalls, padded_precisions, padded_recalls>>

\* line 58: return ap
ReturnAp ==
    /\ pc = "ap_sum"
    /\ ap_index >= Len(padded_recalls)
    /\ pc' = "ap_done"
    /\ UNCHANGED <<postVars, mergeVars, evalVars, mapVars, ocrVars, scanVars, iouVars,
                   apVars>>

NextAp == PadCurve \/ RaisePrecision \/ StartSum \/ AddArea \/ ReturnAp

-----------------------------------------------------------------------------
(* calculate_iou, called with the boxes in either order *)

CalculateIou ==
    /\ pc = "iou_call"
    /\ iou_value' = calculate_iou(box_a, box_b)
    /\ pc' = "iou_done"
    /\ UNCHANGED <<postVars, mergeVars, evalVars, mapVars, ocrVars, scanVars, apVars,
                   box_a, box_b>>

NextIou == CalculateIou

-----------------------------------------------------------------------------
(* merge_line_text and merge_text_lines, called on the list boxes as one line *)

WholeLine(bx) == [i \in 1..Len(bx) |-> i]

MergeLineText ==
    /\ pc = "merge_call"
    /\ merged' = merge_line_text(boxes, WholeLine(boxes), space_threshold)
    /\ pc' = "merged"
    /\ UNCHANGED <<apVars, iouVars, scanVars, postVars, flat, evalVars, mapVars, ocrVars>>

MergeTextLines ==
    /\ pc = "merged"
    /\ flat' = merge_text_lines(boxes)
    /\ pc' = "merge_done"
    /\ UNCHANGED <<apVars, iouVars, scanVars, postVars, merged, evalVars, mapVars, ocrVars>>

NextMerge == MergeLineText \/ MergeTextLines

-----------------------------------------------------------------------------
(* evaluate_detection, one prediction per step *)

\* lines 77-84: an empty list on either side
EvaluateEmpty ==
    /\ pc = "eval_start"
    /\ predictions = <<>> \/ ground_truths = <<>>
    /\ result' = EmptyResult(predictions, ground_truths)
    /\ pc' = "eval_done"
    /\ UNCHANGED <<apVars, iouVars, scanVars, postVars, mergeVars, mapVars, ocrVars, predictions, ground_truths, iou_threshold,
                   sorted_preds, gt_matched, tp, fp>>

\* lines 86-93
SortPredictions ==
    /\ pc = "eval_start"
    /\ predictions # <<>> /\ ground_truths # <<>>
    /\ sorted_preds' = SortByConfidence(predictions)
    /\ gt_matched' = [i \in 1..Len(ground_truths) |-> FALSE]
    /\ tp' = <<>>
    /\ fp' = <<>>
    /\ pc' = "eval_loop"
    /\ UNCHANGED <<apVars, iouVars, scanVars, postVars, mergeVars, mapVars, ocrVars, predictions, ground_truths, iou_threshold, result>>

\* lines 95-117: one iteration of the loop over sorted_preds
MatchPrediction ==
    /\ pc = "eval_loop"
    /\ Len(tp) < Len(sorted_preds)
    /\ LET pred == sorted_preds[Len(tp) + 1]
           best == FindBest(pred.box, ground_truths, gt_matched)
       IN  IF IsTruePositive(best, iou_threshold)
           THEN /\ tp' = Append(tp, 1)
                /\ fp' = Append(fp, 0)
                /\ gt_matched' = MarkMatched(gt_matched, best.gt_idx)
           ELSE /\ tp' = Append(tp, 0)
                /\ fp' = Append(fp, 1)
                /\ UNCHANGED gt_matched
    /\ UNCHANGED <<apVars, iouVars, scanVars, pc, postVars, mergeVars, mapVars, ocrVars, predictions, ground_truths, iou_threshold,
                   sorted_preds, result>>

\* lines 119-148
FinishEvaluation ==
    /\ pc = "eval_loop"
    /\ Len(tp) = Len(sorted_preds)
    /\ result' = FullResult(predictions, Len(ground_truths), tp, fp)
    /\ pc' = "eval_done"
    /\ UNCHANGED <<apVars, iouVars, scanVars, postVars, mergeVars, mapVars, ocrVars, predictions, ground_truths, iou_threshold,
                   sorted_preds, gt_matched, tp, fp>>

NextEval == EvaluateEmpty \/ SortPredictions \/ MatchPrediction \/ FinishEvaluation

-----------------------------------------------------------------------------
(* calculate_map, one threshold per step *)

\* lines 167-177: the default thresholds, and all images in one list
CombineImages ==
    /\ pc = "map_start"
    /\ iou_thresholds' = IF iou_thresholds = None THEN Some(DefaultThresholds)
                         ELSE iou_thresholds
    /\ all_preds' = Flatten(all_predictions)
    /\ all_gts' = Flatten(all_ground_truths)
    /\ aps' = <<>>
    /\ pc' = "map_loop"
    /\ UNCHANGED <<apVars, iouVars, scanVars, postVars, mergeVars, evalVars, ocrVars, all_predictions,
                   all_ground_truths, thresholds_done, map_result>>

\* lines 181-183: one iteration of the loop over iou_thresholds
ApAtThreshold ==
    /\ pc = "map_loop"
    /\ thresholds_done < Len(iou_thresholds[1])
    /\ LET iou_thresh == iou_thresholds[1][thresholds_done + 1]
           r == evaluate_detection(all_preds, all_gts, iou_thresh)
       IN  aps' = PutAp(aps, Label(iou_thresh), r.ap)
    /\ thresholds_done' = thresholds_done + 1
    /\ UNCHANGED <<apVars, iouVars, scanVars, pc, postVars, mergeVars, evalVars, ocrVars, all_predictions,
                   all_ground_truths, iou_thresholds, all_preds, all_gts, map_result>>

\* lines 185-195
FinishMap ==
    /\ pc = "map_loop"
    /\ thresholds_done = Len(iou_thresholds[1])
    /\ map_result' = MapResult(iou_thresholds[1], aps)
    /\ pc' = "map_done"
    /\ UNCHANGED <<apVars, iouVars, scanVars, postVars, mergeVars, evalVars, ocrVars, all_predictions,
                   all_ground_truths, iou_thresholds, all_preds, all_gts, aps,
                   thresholds_done>>

NextMap == CombineImages \/ ApAtThreshold \/ FinishMap

-----------------------------------------------------------------------------
(* calculate_cer, calculate_wer *)

CalculateCer ==
    /\ pc = "metric_call"
    /\ cer' = calculate_cer(prediction, ground_truth)
    /\ pc' = "cer_done"
    /\ UNCHANGED <<apVars, iouVars, scanVars, postVars, mergeVars, evalVars, mapVars, ocr_predictions,
                   ocr_ground_truths, prediction, ground_truth, wer, jiwer, cers,
                   wers, ocr_result>>

CalculateWer ==
    /\ pc = "metric_call"
    /\ wer' = calculate_wer(prediction, ground_truth, jiwer)
    /\ pc' = "wer_done"
    /\ UNCHANGED <<apVars, iouVars, scanVars, postVars, mergeVars, evalVars, mapVars, ocr_predictions,
                   ocr_ground_truths, prediction, ground_truth, cer, jiwer, cers,
                   wers, ocr_result>>

NextMetrics == CalculateCer \/ CalculateWer

-----------------------------------------------------------------------------
(* evaluate_ocr, one sample per step *)

\* lines 252-253
RejectLengths ==
    /\ pc = "ocr_start"
    /\ LengthsDiffer(ocr_predictions, ocr_ground_truths)
    /\ ocr_result' = Raised("ValueError")
    /\ pc' = "ocr_done"
    /\ UNCHANGED <<apVars, iouVars, scanVars, postVars, mergeVars, evalVars, mapVars, ocr_predictions,
                   ocr_ground_truths, prediction, ground_truth, cer, wer, jiwer,
                   cers, wers>>

\* lines 255-256
ReturnNoSamples ==
    /\ pc = "ocr_start"
    /\ ~LengthsDiffer(ocr_predictions, ocr_ground_truths)
    /\ ocr_predictions = <<>>
    /\ ocr_result' = NoSamplesResult
    /\ pc' = "ocr_done"
    /\ UNCHANGED <<apVars, iouVars, scanVars, postVars, mergeVars, evalVars, mapVars, ocr_predictions,
                   ocr_ground_truths, prediction, ground_truth, cer, wer, jiwer,
                   cers, wers>>

\* lines 258-263: one iteration of the loop over zip(predictions, ground_truths);
\* the first one also passes the two tests above
ScoreSample ==
    /\ pc \in {"ocr_start", "ocr_loop"}
    /\ pc = "ocr_start" =>
          ~LengthsDiffer(ocr_predictions, ocr_ground_truths) /\ ocr_predictions # <<>>
    /\ Len(cers) < ZipLen(ocr_predictions, ocr_ground_truths)
    /\ LET pred == ocr_predictions[Len(cers) + 1]
           gt == ocr_ground_truths[Len(cers) + 1]
       IN  /\ cers' = Append(cers, calculate_cer(pred, gt))
           /\ wers' = Append(wers, calculate_wer(pred, gt, jiwer))
    /\ pc' = "ocr_loop"
    /\ UNCHANGED <<apVars, iouVars, scanVars, postVars, mergeVars, evalVars, mapVars, ocr_predictions,
                   ocr_ground_truths, prediction, ground_truth, cer, wer, jiwer,
                   ocr_result>>

\* lines 265-275
FinishOcr ==
    /\ pc = "ocr_loop"
    /\ Len(cers) = ZipLen(ocr_predictions, ocr_ground_truths)
    /\ ocr_result' = OcrResult(ocr_predictions, ocr_ground_truths, cers, wers)
    /\ pc' = "ocr_done"
    /\ UNCHANGED <<apVars, iouVars, scanVars, postVars, mergeVars, evalVars, mapVars, ocr_predictions,
                   ocr_ground_truths, prediction, ground_truth, cer, wer, jiwer,
                   cers, wers>>

NextOcr == RejectLengths \/ ReturnNoSamples \/ ScoreSample \/ FinishOcr

-----------------------------------------------------------------------------
(* Specifications *)

\* postprocess_detections on boxes that exercise the clustering
Spec == Init /\ [][NextPost]_vars

\* postprocess_detections on boxes that exercise the transcript
SpecText == InitText /\ [][NextPost]_vars

\* postprocess_detections on records that may lack a key
SpecSchema == InitSchema /\ [][NextPost]_vars

\* group_into_lines, loop iteration by loop iteration
SpecScan == InitScan /\ [][NextScan]_vars

\* calculate_ap, loop iteration by loop iteration
SpecAp == InitAp /\ [][NextAp]_vars

\* calculate_iou on pairs of valid boxes
SpecIou == InitIou /\ [][NextIou]_vars

\* merge_line_text / merge_text_lines on one line
SpecMerge == InitMerge /\ [][NextMerge]_vars

\* evaluate_detection
SpecEval == InitEval /\ [][NextEval]_vars

\* calculate_map
SpecMap == InitMap /\ [][NextMap]_vars

\* calculate_cer / calculate_wer
SpecMetrics == InitMetrics /\ [][NextMetrics]_vars

\* evaluate_ocr
SpecOcr == InitOcr /\ [][NextOcr]_vars

-----------------------------------------------------------------------------
(* Claims about group_into_lines *)

Grouped == pc \in {"grouped", "done"} /\ boxes # <<>>

DistinctIds(bx) == \A i, j \in 1..Len(bx) : bx[i].id = bx[j].id => i = j

\* the places <<line, position>> at which box i stands in ls
Places(ls, i) ==
    UNION {{<<l, m>> : m \in {k \in 1..Len(ls[l]) : ls[l][k] = i}} : l \in 1..Len(ls)}

\* C1: with pairwise distinct ids, the lines of group_into_lines hold only
\* input boxes, every input box stands at exactly one place of exactly one
\* line, and its line_id is the index of that line.
C1_Partition ==
    (Grouped /\ DistinctIds(boxes)) =>
        /\ \A l \in 1..Len(lines) : Range(lines[l]) \subseteq 1..Len(boxes)
        /\ \A i \in 1..Len(boxes) :
              /\ Cardinality(Places(lines, i)) = 1
              /\ \A p \in Places(lines, i) : boxes[i].line_id = p[1] - 1

\* three boxes clustered into two lines
C1_Witness ==
    /\ pc = "grouped"
    /\ DistinctIds(boxes)
    /\ Len(boxes) = 3
    /\ Len(lines) = 2

CenterYSum(bx, line) == SumSeq([m \in 1..Len(line) |-> bx[line[m]].y1 + bx[line[m]].y2])

\* C2: in the result of group_into_lines every line is in non-decreasing
\* order of horizontal center and the lines are in non-decreasing order of
\* the mean vertical center of their boxes.
C2_Ordered ==
    Grouped =>
        /\ \A l \in 1..Len(lines) : \A m \in 1..(Len(lines[l]) - 1) :
              boxes[lines[l][m]].x1 + boxes[lines[l][m]].x2
                  <= boxes[lines[l][m + 1]].x1 + boxes[lines[l][m + 1]].x2
        /\ \A l \in 1..(Len(lines) - 1) :
              CenterYSum(boxes, lines[l]) * Len(lines[l + 1])
                  <= CenterYSum(boxes, lines[l + 1]) * Len(lines[l])

\* a line whose left-to-right order is not the order of the input, above
\* another line
C2_Witness ==
    /\ pc = "grouped"
    /\ Len(lines) = 2
    /\ Len(lines[1]) = 2
    /\ lines[1][1] > lines[1][2]
    /\ boxes[lines[1][1]].x1 < boxes[lines[1][2]].x1

Permute(s, p) == [i \in 1..Len(s) |-> s[p[i]]]

\* a result of group_into_lines as sequences of box ids
LineIdsOf(bx, ls) == [l \in 1..Len(ls) |-> [m \in 1..Len(ls[l]) |-> bx[ls[l][m]].id]]

\* C3: the lines of group_into_lines, as sequences of box ids, are the same
\* for every order in which the same boxes are passed in.
C3_OrderIndependent ==
    pc = "grouped" =>
        \A p \in Permutations(1..Len(boxes)) :
            LineIdsOf(Permute(boxes, p),
                      group_into_lines(Permute(boxes, p), y_overlap_threshold))
                = LineIdsOf(boxes, lines)

\* C4: a detection with x2 <= x1 or y2 <= y1 is in no line of the result of
\* postprocess_detections.
C4_InvalidRejected ==
    pc = "done" =>
        \A i \in 1..Len(data.detections) :
            ~ValidBox(data.detections[i].box) =>
                \A l \in 1..Len(data.lines) :
                    data.detections[i].id \notin Range(data.lines[l].box_ids)

-----------------------------------------------------------------------------
(* Claims about merge_line_text and merge_text_lines (SpecMerge) *)

Merged == pc \in {"merged", "merge_done"}

\* cur.x1 - prev.x2 for the box at position i >= 2 of the line
GapAt(i) == boxes[i].x1 - boxes[i - 1].x2

HeightSum == SumSeq([i \in 1..Len(boxes) |-> boxes[i].y2 - boxes[i].y1])

\* the gap before box i is strictly greater than space_threshold times the
\* mean height of the line
Significant(i) ==
    i > 1 /\ GapAt(i) * Len(boxes) * space_threshold.den > HeightSum * space_threshold.num

\* the gap before box i equals that bound
AtBound(i) ==
    i > 1 /\ GapAt(i) * Len(boxes) * space_threshold.den = HeightSum * space_threshold.num

\* where the text of box i starts in the merged string (0-based)
Offset(i) ==
    SumSeq([j \in 1..(i - 1) |-> Len(boxes[j].ocr_text)])
        + Cardinality({j \in 2..i : Significant(j)})

\* C5: the merged string is the texts in order, with exactly one space in
\* front of the text of a box whose gap to its predecessor is strictly greater
\* than space_threshold * mean height and nothing in front of it otherwise;
\* A = [0,0,50,20], B = [60,2,110,22], threshold 0.3 gives text(A) " " text(B).
C5_SpaceOnGap ==
    Merged =>
        LET n == Len(boxes) IN
        /\ Len(merged) = IF n = 0 THEN 0 ELSE Offset(n) + Len(boxes[n].ocr_text)
        /\ \A i \in 1..n :
              /\ SubSeq(merged, Offset(i) + 1, Offset(i) + Len(boxes[i].ocr_text))
                    = boxes[i].ocr_text
              /\ Significant(i) => merged[Offset(i)] = SP
        /\ ( /\ n = 2
             /\ <<boxes[1].x1, boxes[1].y1, boxes[1].x2, boxes[1].y2>> = <<0, 0, 50, 20>>
             /\ <<boxes[2].x1, boxes[2].y1, boxes[2].x2, boxes[2].y2>> = <<60, 2, 110, 22>>
             /\ space_threshold = Rat(3, 10) )
           => merged = boxes[1].ocr_text \o <<SP>> \o boxes[2].ocr_text

\* a line of three texts with a gap equal to the bound, then a greater one
C5_Witness ==
    /\ pc = "merged"
    /\ Len(boxes) = 3
    /\ space_threshold = Rat(3, 10)
    /\ AtBound(2)
    /\ Significant(3)
    /\ merged = <<"a", "b", SP, "a">>

\* C6: an empty text adds no separator: the merged string never has two
\* spaces in a row (no text of the lines modelled holds a space).
C6_EmptyAddsNothing ==
    Merged => \A k \in 1..(Len(merged) - 1) : ~(merged[k] = SP /\ merged[k + 1] = SP)

AllTextsNonEmpty == \A i \in 1..Len(boxes) : boxes[i].ocr_text # <<>>
AllGapsPositive == \A i \in 2..Len(boxes) : GapAt(i) > 0

\* C8 as stated: merge_text_lines returns what merge_line_text returns with
\* space_threshold = 0, for every line.
C8_FlatIsThresholdZero ==
    (pc = "merge_done" /\ space_threshold = Zero) => flat = merged

\* the non-empty texts of the line, in order
NonEmptyTexts ==
    SelectSeq([i \in 1..Len(boxes) |-> boxes[i].ocr_text], LAMBDA t : t # <<>>)

\* where the k-th non-empty text starts in the flat string (0-based)
FlatOffset(k) == SumSeq([j \in 1..(k - 1) |-> Len(NonEmptyTexts[j]) + 1])

\* C8 as amended: merge_text_lines is the non-empty texts in the order given
\* with a single space between each two, whatever the geometry; it returns
\* what merge_line_text returns with space_threshold = 0 on a line whose texts
\* are all non-empty and whose adjacent boxes are all separated by a positive
\* gap.
C8_FlatOnSpacedText ==
    pc = "merge_done" =>
        LET n == Len(NonEmptyTexts) IN
        /\ Len(flat) = IF n = 0 THEN 0 ELSE FlatOffset(n) + Len(NonEmptyTexts[n])
        /\ \A k \in 1..n :
              /\ SubSeq(flat, FlatOffset(k) + 1, FlatOffset(k) + Len(NonEmptyTexts[k]))
                    = NonEmptyTexts[k]
              /\ k > 1 => flat[FlatOffset(k)] = SP
        /\ (space_threshold = Zero /\ AllTextsNonEmpty /\ AllGapsPositive) => flat = merged

C8_Witness ==
    /\ pc = "merge_done"
    /\ space_threshold = Zero
    /\ Len(boxes) = 3
    /\ AllTextsNonEmpty
    /\ AllGapsPositive
    /\ flat = <<"a", SP, "b", SP, "a">>

-----------------------------------------------------------------------------
(* Claims about merge_all_text and the empty input (SpecText) *)

\* s without its leading and trailing whitespace
Trimmed(s) ==
    LET keep == {k \in 1..Len(s) : s[k] \notin {SP, NL}}
    IN  IF keep = {} THEN <<>>
        ELSE SubSeq(s, CHOOSE a \in keep : \A k \in keep : a <= k,
                       CHOOSE b \in keep : \A k \in keep : k <= b)

\* the pieces of s between newlines; no piece for the empty string
RECURSIVE SplitLines(_)
SplitLines(s) ==
    IF s = <<>> THEN <<>>
    ELSE LET nls == {k \in 1..Len(s) : s[k] = NL}
         IN  IF nls = {} THEN <<s>>
             ELSE LET k == CHOOSE a \in nls : \A b \in nls : a <= b
                  IN  <<SubSeq(s, 1, k - 1)>>
                      \o (IF k = Len(s) THEN <<<<>>>> ELSE SplitLines(SubSeq(s, k + 1, Len(s))))

\* the trimmed default-threshold strings of the lines, the empty ones left out
KeptLineTexts ==
    SelectSeq([l \in 1..Len(lines) |-> Trimmed(merge_line_text(boxes, lines[l], Rat(3, 10)))],
              LAMBDA t : t # <<>>)

\* C7: aggregated_text is the trimmed merged strings of the lines, the empty
\* ones left out, joined by newlines in line order; an empty detection set
\* gives lines = [] and aggregated_text = "".
C7_Transcript ==
    pc = "done" =>
        IF data.detections = <<>>
        THEN data.lines = <<>> /\ data.aggregated_text = <<>>
        ELSE SplitLines(data.aggregated_text) = KeptLineTexts

\* two lines in the transcript, one of which had to be trimmed
C7_Witness ==
    /\ pc = "done"
    /\ Len(lines) = 2
    /\ Len(KeptLineTexts) = 2
    /\ \E l \in 1..2 : Head(merge_line_text(boxes, lines[l], Rat(3, 10))) = SP
    /\ data.aggregated_text = <<"a", NL, "a">>

\* the empty detection set
C7_WitnessEmpty == pc = "done" /\ data.detections = <<>>

-----------------------------------------------------------------------------
(* Claims about evaluate_detection (SpecEval) *)

IsNumber(r) == r.den > 0

AllFour(r, v) == r.precision = v /\ r.recall = v /\ r.ap = v /\ r.f1 = v

\* C9: both lists empty gives precision = recall = ap = f1 = 1; exactly one
\* of them empty gives 0 for all four; each value is a number.
C9_EmptyConvention ==
    (pc = "eval_done" /\ (predictions = <<>> \/ ground_truths = <<>>)) =>
        /\ (predictions = <<>> /\ ground_truths = <<>>) => AllFour(result, Rat(1, 1))
        /\ (predictions = <<>> /\ ground_truths # <<>>) => AllFour(result, Rat(0, 1))
        /\ (predictions # <<>> /\ ground_truths = <<>>) => AllFour(result, Rat(0, 1))
        /\ \A k \in {"precision", "recall", "ap", "f1"} : IsNumber(result[k])

\* predictions without any ground truth
C9_Witness ==
    /\ pc = "eval_done"
    /\ Len(predictions) = 2
    /\ ground_truths = <<>>
    /\ AllFour(result, Rat(0, 1))

MatchedCount == Cardinality({i \in 1..Len(gt_matched) : gt_matched[i]})

\* C10: the true positives so far are matched one-to-one to ground truths:
\* there are as many matched ground truths as true positives, so never more
\* true positives than ground truths.
C10_OneToOne ==
    pc \in {"eval_loop", "eval_done"} =>
        /\ SumSeq(tp) = MatchedCount
        /\ SumSeq(tp) <= Len(ground_truths)

InUnit(r) == RatGeq(r, Zero) /\ RatGeq(One, r)

\* C11: for every threshold, predictions and ground truths the returned ap
\* lies between 0 and 1.
C11_ApBounded ==
    pc = "eval_done" => IsNumber(result.ap) /\ InUnit(result.ap)

BoxesOf(s) == [i \in 1..Len(s) |-> s[i].box]

\* the prediction boxes are the ground-truth boxes in some order, each of
\* positive area (IoU 1 with itself)
PerfectInput ==
    /\ Len(predictions) = Len(ground_truths)
    /\ \E p \in Permutations(1..Len(ground_truths)) :
          BoxesOf(predictions) = Permute(BoxesOf(ground_truths), p)
    /\ \A i \in 1..Len(ground_truths) : ValidBox(ground_truths[i].box)

ExampleInput ==
    /\ predictions = ExamplePredictions
    /\ ground_truths = ExampleGroundTruths
    /\ iou_threshold = Rat(1, 2)

\* C12: when the prediction boxes are exactly the ground-truth boxes, at any
\* threshold in (0, 1] every prediction is a true positive and precision =
\* recall = ap = f1 = 1, whatever the confidences and the order of the lists;
\* in the two-box scenario at threshold 0.5 both predictions are true
\* positives and precision = recall = ap = 1.
C12_PerfectMatch ==
    /\ (pc = "eval_done" /\ PerfectInput
          /\ RatGt(iou_threshold, Zero) /\ RatGeq(One, iou_threshold)) =>
            /\ AllFour(result, One)
            /\ \A i \in 1..Len(tp) : tp[i] = 1
    /\ (pc = "eval_done" /\ ExampleInput) =>
            /\ tp = <<1, 1>>
            /\ result.precision = One /\ result.recall = One /\ result.ap = One

\* overlapping ground truths (IoU 1/2) met in the other order, at threshold 1/2
C12_Witness ==
    /\ pc = "eval_done"
    /\ BoxesOf(predictions) = <<<<0, 0, 2, 2>>, <<0, 0, 2, 1>>>>
    /\ BoxesOf(ground_truths) = <<<<0, 0, 2, 1>>, <<0, 0, 2, 2>>>>
    /\ predictions[1].confidence < predictions[2].confidence
    /\ iou_threshold = Rat(1, 2)
    /\ AllFour(result, One)

C12_WitnessExample == pc = "eval_done" /\ ExampleInput /\ result.true_positives = 2

CountKeys == {"true_positives", "false_positives", "false_negatives"}

\* C13: every result, those of the empty-input cases included, carries the
\* counts of true positives, false positives and false negatives; each is
\* >= 0, tp + fp is the number of predictions and tp + fn the number of
\* ground truths.
C13_CountsInEveryResult ==
    pc = "eval_done" =>
        /\ CountKeys \subseteq DOMAIN result
        /\ \A k \in CountKeys : result[k] \in Nat
        /\ result.true_positives + result.false_positives = Len(predictions)
        /\ result.true_positives + result.false_negatives = Len(ground_truths)

-----------------------------------------------------------------------------
(* Claims about calculate_map (SpecMap) *)

MapDone == pc = "map_done"

Thresholds == iou_thresholds[1]

\* the AP of the combined lists at one threshold
ApAt(t) == evaluate_detection(all_preds, all_gts, t).ap

\* C14: the result has, for every threshold of the list, an entry holding the
\* AP computed at that threshold; 'mAP@0.5' is the AP computed at 0.5 when 0.5
\* is in the list; 'mAP@0.5:0.95' is the arithmetic mean of the APs of all
\* thresholds of the list, each with its own AP; the list is 0.5, 0.55, ...,
\* 0.95 when none was given.
C14_MapPerThreshold ==
    /\ (pc # "map_start" /\ thresholds_done = 0 /\ Len(Thresholds) = 10) =>
            Thresholds = DefaultThresholds
    /\ MapDone =>
        LET d == map_result["AP_per_threshold"]
            n == Len(Thresholds)
        IN  /\ \A i \in 1..n :
                  /\ Label(Thresholds[i]) \in DOMAIN d
                  /\ d[Label(Thresholds[i])] = ApAt(Thresholds[i])
            /\ (\E i \in 1..n : RatEq(Thresholds[i], Rat(1, 2))) =>
                  map_result["mAP@0.5"] = ApAt(Rat(1, 2))
            /\ map_result["mAP@0.5:0.95"] = Mean([i \in 1..n |-> ApAt(Thresholds[i])])

-----------------------------------------------------------------------------
(* Claims about calculate_cer and calculate_wer (SpecMetrics) *)

\* the least number of insertions, deletions and substitutions of one
\* element that turn a into b
RECURSIVE Levenshtein(_, _)
Levenshtein(a, b) ==
    IF a = <<>> THEN Len(b)
    ELSE IF b = <<>> THEN Len(a)
    ELSE Min3(Levenshtein(Tail(a), b) + 1,
              Levenshtein(a, Tail(b)) + 1,
              Levenshtein(Tail(a), Tail(b)) + (IF Head(a) = Head(b) THEN 0 ELSE 1))

\* the drawn strings (the eleven-character scenario is checked by its value)
Drawn == Len(prediction) <= MaxChars /\ Len(ground_truth) <= MaxChars

\* C15: the CER is the Levenshtein distance of the characters over the length
\* of the reference; with an empty reference it is 0 for an empty prediction
\* and 1 otherwise; CER(s, s) = 0; "Hello Warld" against "Hello World" gives
\* 1/11; a prediction more than twice as long as a non-empty reference gives
\* more than 1.
C15_Cer ==
    pc = "cer_done" =>
        /\ (ground_truth = <<>> /\ prediction = <<>>) => cer = Zero
        /\ (ground_truth = <<>> /\ prediction # <<>>) => cer = One
        /\ (ground_truth # <<>> /\ Drawn) =>
              /\ IsNumber(cer)
              /\ cer.num * Len(ground_truth)
                    = Levenshtein(prediction, ground_truth) * cer.den
        /\ prediction = ground_truth => cer = Zero
        /\ (prediction = HelloWarld /\ ground_truth = HelloWorld) => cer = Rat(1, 11)
        /\ (ground_truth # <<>> /\ Len(prediction) > 2 * Len(ground_truth)) =>
              RatGt(cer, One)

C15_Witness ==
    /\ pc = "cer_done"
    /\ prediction = HelloWarld
    /\ ground_truth = HelloWorld
    /\ cer = Rat(1, 11)

\* a CER above 1
C15_WitnessAboveOne ==
    /\ pc = "cer_done"
    /\ prediction = <<"a", "a", "a">>
    /\ ground_truth = <<SP>>
    /\ cer = Rat(3, 1)

\* the whitespace-separated words of s: each maximal run of characters that
\* are not whitespace, in order
WordStarts(s) == {i \in 1..Len(s) : ~IsSpace(s[i]) /\ (i = 1 \/ IsSpace(s[i - 1]))}

WordEnd(s, i) ==
    CHOOSE j \in i..Len(s) :
        /\ \A k \in i..j : ~IsSpace(s[k])
        /\ j = Len(s) \/ IsSpace(s[j + 1])

Tokens(s) ==
    LET starts == WordStarts(s)
        order == CHOOSE f \in [1..Cardinality(starts) -> starts] :
                    \A m, n \in 1..Cardinality(starts) : m < n => f[m] < f[n]
    IN  [m \in 1..Cardinality(starts) |-> SubSeq(s, order[m], WordEnd(s, order[m]))]

\* C16: the WER is the Levenshtein distance of the whitespace-separated word
\* sequences over the number of reference words; with a reference without
\* words it is 0 for a prediction without words and 1 otherwise; WER(s, s) = 0.
C16_Wer ==
    (pc = "wer_done" /\ Drawn) =>
        LET pw == Tokens(prediction)
            gw == Tokens(ground_truth)
        IN  /\ (gw = <<>> /\ pw = <<>>) => wer = Zero
            /\ (gw = <<>> /\ pw # <<>>) => wer = One
            /\ gw # <<>> =>
                  /\ IsNumber(wer)
                  /\ wer.num * Len(gw) = Levenshtein(pw, gw) * wer.den
            /\ prediction = ground_truth => wer = Zero

\* the same, for the calls in which the import of jiwer fails
C16_WerFallbackOnly == jiwer \/ C16_Wer

-----------------------------------------------------------------------------
(* Claims about evaluate_ocr (SpecOcr) *)

Mismatch == Len(ocr_predictions) # Len(ocr_ground_truths)

\* C17: with lists of different lengths the call ends in ValueError: no CER or
\* WER is ever computed and no result dict is returned; with lists of equal
\* length n >= 1 the result has num_samples = n, one per-sample entry for each
\* input pair, in input order, and CER / WER are the arithmetic means of the
\* per-sample values.
C17_LengthMismatch ==
    /\ Mismatch =>
          /\ cers = <<>> /\ wers = <<>>
          /\ pc \in {"ocr_start", "ocr_done"}
          /\ pc = "ocr_done" => ocr_result = Raised("ValueError")
    /\ (pc = "ocr_done" /\ ~Mismatch /\ ocr_predictions # <<>>) =>
          LET n == Len(ocr_predictions)
              ps == ocr_result.per_sample
          IN  /\ ocr_result.num_samples = n
              /\ Len(ps) = n
              /\ \A i \in 1..n :
                    /\ ps[i].prediction = ocr_predictions[i]
                    /\ ps[i].ground_truth = ocr_ground_truths[i]
                    /\ ps[i].CER = calculate_cer(ocr_predictions[i], ocr_ground_truths[i])
                    /\ ps[i].WER = calculate_wer(ocr_predictions[i], ocr_ground_truths[i],
                                                 jiwer)
              /\ RatEq(RatSum([i \in 1..n |-> ps[i].CER]),
                       Rat(ocr_result.CER.num * n, ocr_result.CER.den))
              /\ RatEq(RatSum([i \in 1..n |-> ps[i].WER]),
                       Rat(ocr_result.WER.num * n, ocr_result.WER.den))

\* two predictions against one reference
C17_Witness ==
    /\ pc = "ocr_done"
    /\ Len(ocr_predictions) = 2
    /\ Len(ocr_ground_truths) = 1
    /\ ocr_result = Raised("ValueError")

\* two samples of different CER
C17_WitnessEqual ==
    /\ pc = "ocr_done"
    /\ ocr_predictions = <<<<"a">>, <<>>>>
    /\ ocr_ground_truths = <<<<"a">>, <<"a">>>>
    /\ ocr_result.CER = Rat(1, 2)
    /\ ocr_result.num_samples = 2

-----------------------------------------------------------------------------
(* Claims about missing fields (SpecSchema) *)

Malformed(det) == det.id = Absent \/ "box" \notin DOMAIN det

\* C18: a call whose detections hold a record without id or without box ends
\* in a failure: no box is built from a default value and no result is
\* written.
C18_MissingFieldFails ==
    (\E i \in 1..Len(data.detections) : Malformed(data.detections[i])) =>
        /\ boxes = <<>>
        /\ pc \notin {"grouped", "done"}

\* the true positives evaluate_detection counts on two lists
TruePositives(preds, gts, t) ==
    IF preds = <<>> \/ gts = <<>> THEN 0
    ELSE SumSeq(MatchAll(SortByConfidence(preds), gts,
                         [i \in 1..Len(gts) |-> FALSE], <<>>, t))

\* C19: at every threshold of the call, the true positives (hence the false
\* positives) counted on the combined lists are the sum over the images of
\* the true positives of evaluate_detection on that image alone: no prediction
\* is matched to a ground truth of another image.
C19_PerImage ==
    pc \in {"map_loop", "map_done"} =>
        \A k \in 1..thresholds_done :
            TruePositives(all_preds, all_gts, Thresholds[k])
                = SumSeq([i \in 1..Len(all_predictions) |->
                            TruePositives(all_predictions[i], all_ground_truths[i],
                                          Thresholds[k])])

-----------------------------------------------------------------------------
(* Claims about zero denominators *)

\* C20: no ratio is computed with a zero denominator, for any input: every
\* value calculate_map stores or returns (each AP, with the precision, recall
\* and IoU ratios behind it, and the two means) is a number.
C20_NoZeroDenominator ==
    /\ \A l \in DOMAIN aps : IsNumber(aps[l])
    /\ pc = "map_done" =>
          /\ IsNumber(map_result["mAP@0.5"])
          /\ IsNumber(map_result["mAP@0.5:0.95"])

\* the guards the claim lists, in evaluate_detection (SpecEval): the
\* denominators of the cumulative precision and recall are >= 1 and the four
\* values returned are numbers, f1 being 0 when precision + recall = 0
C20_GuardsEvaluate ==
    /\ pc = "eval_loop" =>
          /\ Len(ground_truths) >= 1
          /\ \A i \in 1..Len(tp) : CumSum(tp)[i] + CumSum(fp)[i] >= 1
    /\ pc = "eval_done" =>
          /\ \A k \in {"precision", "recall", "ap", "f1"} : IsNumber(result[k])
          /\ RatEq(RatAdd(result.precision, result.recall), Zero) => result.f1 = Zero

\* the guards the claim lists, in group_into_lines and merge_line_text (Spec):
\* vertical_overlap is 0 when the smaller height is not positive, and every
\* line whose mean height or mean center is taken has a box
C20_GuardsLines ==
    /\ \A i, j \in 1..Len(boxes) :
          /\ IsNumber(vertical_overlap(boxes[i], boxes[j]))
          /\ min_height(boxes[i], boxes[j]) <= 0 =>
                RatEq(vertical_overlap(boxes[i], boxes[j]), Zero)
    /\ \A l \in 1..Len(lines) : Len(lines[l]) >= 1

\* the guards the claim lists, in calculate_cer / calculate_wer (SpecMetrics)
C20_GuardsMetrics ==
    /\ pc = "cer_done" => IsNumber(cer)
    /\ pc = "wer_done" => IsNumber(wer)
-----------------------------------------------------------------------------
(* Claims about the scan of group_into_lines (SpecScan) *)

\* the boxes that are in a finished line
Assigned == UNION {Range(lines[l]) : l \in 1..Len(lines)}

\* the inner loop over the current line has ended and the line is not yet sorted
LineComplete == pc = "scan_inner" /\ other_index > Len(sorted_boxes)

\* the place of box i in sorted_boxes
SortedPlace(i) == CHOOSE k \in 1..Len(sorted_boxes) : sorted_boxes[k] = i

\* the stepwise scan ends with the lines group_into_lines returns
ScanAgrees ==
    pc = "scan_done" => lines = group_into_lines(boxes, y_overlap_threshold)

\* C21: in a complete line the first box is the seed, the member earliest in
\* the vertical-center sort; every later member has vertical overlap ratio >=
\* threshold with a member that joined before it; and every box that was in no
\* line when the line was started and whose overlap ratio with the seed is >=
\* threshold is in the line.
C21_SingleLinkage ==
    LineComplete =>
        /\ \A m \in 2..Len(current_line) :
              /\ SortedPlace(current_line[1]) < SortedPlace(current_line[m])
              /\ \E k \in 1..(m - 1) :
                    RatGeq(vertical_overlap(boxes[current_line[k]], boxes[current_line[m]]),
                           y_overlap_threshold)
        /\ \A o \in (1..Len(boxes)) \ Assigned :
              RatGeq(vertical_overlap(boxes[current_line[1]], boxes[o]), y_overlap_threshold)
                  => o \in Range(current_line)

\* C21 for boxes of pairwise distinct ids
C21_SingleLinkageDistinctIds == DistinctIds(boxes) => C21_SingleLinkage
\* C22: while a line is built the inner loop only moves forward through
\* sorted_boxes, also after a box has joined, so that no box is examined twice
\* for the same line.
C22_SingleForwardScan ==
    [][(pc = "scan_inner" /\ pc' = "scan_inner") => other_index' = other_index + 1]_vars

\* a complete line, of boxes of distinct ids, that leaves out a box which was
\* examined before a member joined and overlaps that member enough
C22_Witness ==
    /\ LineComplete
    /\ DistinctIds(boxes)
    /\ \E o \in (1..Len(boxes)) \ (Assigned \cup Range(current_line)) :
          \E m \in 2..Len(current_line) :
              /\ SortedPlace(o) < SortedPlace(current_line[m])
              /\ RatGeq(vertical_overlap(boxes[current_line[m]], boxes[o]),
                        y_overlap_threshold)

\* the result: two boxes of overlap ratio >= threshold in different lines
C22_WitnessSplit ==
    /\ pc = "scan_done"
    /\ DistinctIds(boxes)
    /\ \E i, j \in 1..Len(boxes) :
          /\ RatGeq(vertical_overlap(boxes[i], boxes[j]), y_overlap_threshold)
          /\ boxes[i].line_id # boxes[j].line_id
-----------------------------------------------------------------------------
(* Claims about the matching of evaluate_detection (SpecEval) *)

Sorted == pc \in {"eval_loop", "eval_done"} /\ sorted_preds # <<>>

\* the arrangements p of the predictions (sorted_preds[k] = predictions[p[k]])
\* that are in non-increasing confidence with ties in input order
StableDescending ==
    {p \in Permutations(1..Len(predictions)) :
        /\ \A k \in 1..Len(predictions) : sorted_preds[k] = predictions[p[k]]
        /\ \A k, l \in 1..Len(predictions) :
              k < l => \/ Confidence(predictions[p[k]]) > Confidence(predictions[p[l]])
                       \/ /\ Confidence(predictions[p[k]]) = Confidence(predictions[p[l]])
                          /\ p[k] < p[l]}

\* the ground truths with which the prediction at place k of sorted_preds
\* reaches the threshold
Reaches(k) ==
    {g \in 1..Len(ground_truths) :
        RatGeq(calculate_iou(sorted_preds[k].box, ground_truths[g].box), iou_threshold)}

\* C23 (order): sorted_preds holds the predictions in non-increasing
\* confidence, a missing confidence counting as 0 and equal confidences
\* staying in input order.
C23_SortedByConfidence ==
    Sorted => /\ Len(sorted_preds) = Len(predictions)
              /\ StableDescending # {}

\* C23: the predictions are processed in non-increasing confidence with ties
\* in input order, and of two predictions that reach the threshold with the
\* same single ground truth only, the later one is a false positive and the
\* earlier one, when no prediction before it reaches the threshold with that
\* ground truth, a true positive.
C23_ConfidenceOrder ==
    /\ C23_SortedByConfidence
    /\ pc = "eval_done" /\ sorted_preds # <<>> =>
          \A i, j \in 1..Len(sorted_preds) :
              (i < j /\ Cardinality(Reaches(i)) = 1 /\ Reaches(j) = Reaches(i)) =>
                  /\ tp[j] = 0
                  /\ (\A k \in 1..(i - 1) : Reaches(k) \cap Reaches(i) = {}) => tp[i] = 1

\* C23 at thresholds above 0
C23_ConfidenceOrderPositive == RatGt(iou_threshold, Zero) => C23_ConfidenceOrder

\* two predictions of equal confidence 0, the first without the key, both at
\* the threshold with the one ground truth: the first is the true positive
C23_WitnessTie ==
    /\ pc = "eval_done"
    /\ Len(predictions) = 2
    /\ predictions[1].confidence = Absent
    /\ predictions[2].confidence = 0
    /\ predictions[1].box # predictions[2].box
    /\ sorted_preds = predictions
    /\ Reaches(1) = {1} /\ Reaches(2) = {1}
    /\ tp = <<1, 0>>
\* the ground truths not yet matched
Unmatched == {g \in 1..Len(gt_matched) : ~gt_matched[g]}

\* the prediction the next iteration of the loop processes
Current == sorted_preds[Len(tp) + 1]

IouWith(g) == calculate_iou(Current.box, ground_truths[g].box)

\* the unmatched ground truths of maximum IoU with the current prediction
Maxima == {g \in Unmatched : \A h \in Unmatched : RatGeq(IouWith(g), IouWith(h))}

\* the lowest index among them
BestGt == CHOOSE g \in Maxima : \A h \in Maxima : g <= h

\* C24: an iteration of the matching loop makes the prediction a true
\* positive, and marks the lowest-indexed unmatched ground truth of maximum
\* IoU, exactly when that maximum IoU is >= iou_threshold; otherwise it makes
\* the prediction a false positive and changes no matched flag.
C24_BestIouMatch ==
    [][(pc = "eval_loop" /\ Len(tp') = Len(tp) + 1) =>
          IF Unmatched # {} /\ RatGeq(IouWith(BestGt), iou_threshold)
          THEN /\ tp' = Append(tp, 1)
               /\ fp' = Append(fp, 0)
               /\ gt_matched' = [gt_matched EXCEPT ![BestGt] = TRUE]
          ELSE /\ tp' = Append(tp, 0)
               /\ fp' = Append(fp, 1)
               /\ gt_matched' = gt_matched]_vars

\* C24 at thresholds above 0
C24_BestIouMatchPositive ==
    [][RatGt(iou_threshold, Zero) =>
          ((pc = "eval_loop" /\ Len(tp') = Len(tp) + 1) =>
              IF Unmatched # {} /\ RatGeq(IouWith(BestGt), iou_threshold)
              THEN /\ tp' = Append(tp, 1)
                   /\ fp' = Append(fp, 0)
                   /\ gt_matched' = [gt_matched EXCEPT ![BestGt] = TRUE]
              ELSE /\ tp' = Append(tp, 0)
                   /\ fp' = Append(fp, 1)
                   /\ gt_matched' = gt_matched)]_vars

\* a prediction matched to the second ground truth, of IoU 1/2, although the
\* first, of IoU 1/3, reaches the threshold 1/4 too
C24_WitnessBestNotFirst ==
    /\ pc = "eval_loop"
    /\ iou_threshold = Rat(1, 4)
    /\ Len(sorted_preds) = 1
    /\ Len(ground_truths) = 2
    /\ calculate_iou(sorted_preds[1].box, ground_truths[1].box) = Rat(1, 3)
    /\ calculate_iou(sorted_preds[1].box, ground_truths[2].box) = Rat(1, 2)
    /\ gt_matched = <<FALSE, TRUE>>
-----------------------------------------------------------------------------
(* Claims about calculate_ap (SpecAp) *)

\* the stepwise computation ends with the value of calculate_ap
ApAgrees == pc = "ap_done" => ap_value = calculate_ap(curve_precisions, curve_recalls)

\* the curve with (recall 0, precision 0) in front and (recall 1, precision 0)
\* at the end
PaddedP == <<Zero>> \o curve_precisions \o <<Zero>>
PaddedR == <<Zero>> \o curve_recalls \o <<One>>

\* the largest of the padded precisions from place i on
LaterMax(i) ==
    LET j == CHOOSE j \in i..Len(PaddedP) :
                 \A k \in i..Len(PaddedP) : RatGeq(PaddedP[j], PaddedP[k])
    IN  PaddedP[j]

\* the sum over the places 2..n of (recall[i] - recall[i-1]) * LaterMax(i)
RECURSIVE AreaUpTo(_)
AreaUpTo(n) ==
    IF n < 2 THEN Zero
    ELSE RatAdd(AreaUpTo(n - 1),
                RatMul(RatSub(PaddedR[n], PaddedR[n - 1]), LaterMax(n)))

\* the value and the local lists of calculate_ap
ApCurve ==
    /\ pc \in {"ap_sum", "ap_done"} =>
          /\ Len(padded_precisions) = Len(PaddedP)
          /\ padded_recalls = PaddedR
          /\ \A i \in 1..Len(PaddedP) : RatEq(padded_precisions[i], LaterMax(i))
          /\ \A i \in 1..(Len(PaddedP) - 1) :
                RatGeq(padded_precisions[i], padded_precisions[i + 1])
    /\ pc = "ap_done" => RatEq(ap_value, AreaUpTo(Len(PaddedR)))

\* no step of calculate_ap changes the lists passed in
ArgumentsKept ==
    [][curve_precisions' = curve_precisions /\ curve_recalls' = curve_recalls]_vars

\* C25: calculate_ap returns the sum, over the padded curve, of the recall
\* steps times the largest precision from that place on; once the backward
\* loop is over its local precisions are those maxima, in non-increasing
\* order; the two lists passed in are never changed.
C25_AllPointAp == []ApCurve /\ ArgumentsKept

\* a curve whose precision rises (1/2 then 1 at recalls 1/2 and 1): the
\* envelope lifts the first point and the value is 1
C25_Witness ==
    /\ pc = "ap_done"
    /\ curve_precisions = <<Rat(1, 2), One>>
    /\ curve_recalls = <<Rat(1, 2), One>>
    /\ padded_precisions = <<One, One, One, Zero>>
    /\ ap_value = One
\* a finished call with both lists non-empty
Scored == pc = "eval_done" /\ predictions # <<>> /\ ground_truths # <<>>

\* C26 (values): precision is tp / (tp + fp) over all predictions, recall is
\* tp / number of ground truths, and f1 is 2PR / (P + R), which is
\* 2 tp / (predictions + ground truths), and 0 when P + R = 0.
C26_MetricValues ==
    Scored =>
        /\ SumSeq(tp) + SumSeq(fp) = Len(predictions)
        /\ RatEq(result.precision, Rat(SumSeq(tp), SumSeq(tp) + SumSeq(fp)))
        /\ RatEq(result.recall, Rat(SumSeq(tp), Len(ground_truths)))
        /\ RatEq(result.f1,
                 IF SumSeq(tp) = 0 THEN Zero
                 ELSE Rat(2 * SumSeq(tp), Len(predictions) + Len(ground_truths)))
        /\ RatEq(RatMul(result.f1, RatAdd(result.precision, result.recall)),
                 RatMul(Rat(2, 1), RatMul(result.precision, result.recall)))

\* C26: with both lists non-empty the reported precision, recall and f1 are
\* the final values above and each lies between 0 and 1.
C26_FinalMetrics ==
    /\ C26_MetricValues
    /\ Scored => InUnit(result.precision) /\ InUnit(result.recall) /\ InUnit(result.f1)

\* C26 at thresholds above 0
C26_FinalMetricsPositive == RatGt(iou_threshold, Zero) => C26_FinalMetrics

\* one true and one false positive against two ground truths: all three are 1/2
C26_WitnessHalf ==
    /\ Scored
    /\ RatGt(iou_threshold, Zero)
    /\ tp = <<1, 0>>
    /\ Len(ground_truths) = 2
    /\ result.precision = Rat(1, 2) /\ result.recall = Rat(1, 2) /\ result.f1 = Rat(1, 2)
-----------------------------------------------------------------------------
(* Claims about calculate_iou (SpecIou) *)

\* the unit cells a box with integer corners covers
Cells(b) == {<<x, y>> : x \in b[1]..(b[3] - 1), y \in b[2]..(b[4] - 1)}

Shared == Cells(box_a) \cap Cells(box_b)
Covered == Cells(box_a) \cup Cells(box_b)

\* C27: for two valid boxes calculate_iou is the area of the intersection
\* over the area of the union, the same with the arguments exchanged, between
\* 0 and 1, 1 exactly for identical boxes, and 0 for boxes that share no area
\* (an edge or a corner in common included).
C27_Iou ==
    pc = "iou_done" =>
        /\ RatEq(iou_value, Rat(Cardinality(Shared), Cardinality(Covered)))
        /\ iou_value = calculate_iou(box_b, box_a)
        /\ InUnit(iou_value)
        /\ RatEq(iou_value, One) <=> box_a = box_b
        /\ Shared = {} => iou_value = Zero

\* two boxes that overlap in part: IoU 1/3
C27_Witness ==
    /\ pc = "iou_done"
    /\ box_a = <<0, 0, 2, 1>>
    /\ box_b = <<1, 0, 3, 1>>
    /\ iou_value = Rat(1, 3)

\* two boxes with only an edge in common, two with only a corner: IoU 0
C27_WitnessEdge ==
    /\ pc = "iou_done"
    /\ box_a = <<0, 0, 1, 1>>
    /\ box_b = <<1, 0, 2, 1>>
    /\ iou_value = Zero

C27_WitnessCorner ==
    /\ pc = "iou_done"
    /\ box_a = <<0, 0, 1, 1>>
    /\ box_b = <<1, 1, 2, 2>>
    /\ iou_value = Zero
-----------------------------------------------------------------------------
(* Claims about the result of postprocess_detections (SpecText, SpecSchema) *)

\* the 'text' fields of data['lines'], trimmed, the empty ones left out
KeptEntryTexts ==
    SelectSeq([l \in 1..Len(data.lines) |-> Trimmed(data.lines[l].text)],
              LAMBDA t : t # <<>>)

\* C28: in the result, for the space_threshold of the call, aggregated_text
\* is the 'text' fields of data['lines'], trimmed, the empty ones left out,
\* joined by newlines in line order.
C28_TranscriptMatchesLines ==
    pc = "done" => data.aggregated_text = JoinStr(<<NL>>, KeptEntryTexts)

\* C28 for calls with the default space_threshold
C28_TranscriptMatchesLinesDefault ==
    space_threshold = DefaultSpace => C28_TranscriptMatchesLines
\* the id parse_detections gives the record at position i (0-based position
\* when the record has none)
EffectiveId(i) == DetId(data.detections[i], i - 1)

\* the places <<entry, position>> of data['lines'] that list the id
ListedAt(id) ==
    UNION {{<<l, m>> : m \in {k \in 1..Len(data.lines[l].box_ids) :
                                  data.lines[l].box_ids[k] = id}} :
              l \in 1..Len(data.lines)}

\* the records that parse to the id
RecordsOf(id) == {i \in 1..Len(data.detections) : EffectiveId(i) = id}

\* C29: in the result every detection record is listed once: each id is
\* listed as many times as there are records parsed to it, all of these in
\* one entry only when it is one record, the num_boxes sum to the number of
\* detections, and each record has the line_id of the entry that lists it.
C29_RecordPartition ==
    (pc = "done" /\ data.detections # <<>>) =>
        /\ SumSeq([l \in 1..Len(data.lines) |-> data.lines[l].num_boxes])
              = Len(data.detections)
        /\ \A l \in 1..Len(data.lines) :
              data.lines[l].num_boxes = Len(data.lines[l].box_ids)
        /\ \A i \in 1..Len(data.detections) :
              /\ Cardinality(ListedAt(EffectiveId(i))) = Cardinality(RecordsOf(EffectiveId(i)))
              /\ \E p \in ListedAt(EffectiveId(i)) :
                    data.detections[i].line_id = data.lines[p[1]].line_id

\* C29 for records that all carry an id, no two the same
C29_RecordPartitionDistinctIds ==
    (/\ \A i \in 1..Len(data.detections) : data.detections[i].id # Absent
     /\ \A i, j \in 1..Len(data.detections) :
           data.detections[i].id = data.detections[j].id => i = j)
        => C29_RecordPartition

\* two records with the ids 1 and 0, in two lines
C29_WitnessDistinct ==
    /\ pc = "done"
    /\ Len(data.detections) = 2
    /\ data.detections[1].id = 1 /\ data.detections[2].id = 0
    /\ Len(data.lines) = 2
-----------------------------------------------------------------------------
(* Claims about the order of the ground truths (SpecEval) *)

\* C30: the dict evaluate_detection returns is the one it returns for the
\* same predictions and threshold with the ground truths in any other order.
C30_GtOrderIndependent ==
    pc = "eval_done" =>
        \A p \in Permutations(1..Len(ground_truths)) :
            evaluate_detection(predictions, Permute(ground_truths, p), iou_threshold)
                = result

=============================================================================
